---- MODULE Spec2Model ----
(***************************************************************************)
(* Roster reconciliation engine of documents_bot (sync_to_sheets.py):      *)
(* one worker periodically merges the clients of the database by           *)
(* normalized phone, snapshots the phone column of the Google sheet,       *)
(* plans duplicate clears, appends and updates, and applies them with      *)
(* remote calls that can fail.                                             *)
(*                                                                         *)
(* A Python string is a sequence of one-character strings.  None, True and *)
(* False are the one-element sequences <<"None">>, <<"True">>, <<"False">>,*)
(* which no string of characters equals.                                   *)
(***************************************************************************)
EXTENDS Integers, Sequences, FiniteSets, TLC

VARIABLES
    store,              \* rows returned by get_all_clients_with_documents
    grid,               \* the sheet: grid[r][c], rows 1..Len(grid) hold content
    rowCount,           \* gridProperties.rowCount of the sheet (its capacity)
    pc,                 \* position of the worker inside sync_to_sheets
    existing_phones,    \* snapshot: ordered dict phone_norm -> rows
    normalized_existing,\* ordered dict phone_norm -> canonical / planned row
    last_row,
    duplicate_clears,
    all_updates,
    new_rows,
    i,                  \* loop variable of the chunk loops
    log,                \* remote write requests issued by the current cycle
    occupied0,          \* rows holding a non-empty cell when the snapshot was read
    outcome,            \* how the last finished cycle ended
    prev,               \* how the cycle before the current one ended
    sched,              \* position of run_scheduler inside its loop
    elapsed,            \* seconds slept since the last cycle returned
    active,             \* calls of sync_to_sheets that have not returned yet
    day,                \* the date datetime.now() gives, counted in days
    arg,                \* argument of the function under study
    ret,                \* what the function returned for arg
    connections,        \* Database connections opened and not closed
    other,              \* the locals of a second sync_to_sheets, while the
                        \* first one runs
    frame               \* the bot: the state of the call or job under study

vars == <<store, grid, rowCount, pc, existing_phones, normalized_existing,
          last_row, duplicate_clears, all_updates, new_rows, i, log,
          occupied0, outcome, prev, sched, elapsed, active, day, arg, ret,
          connections, other, frame>>

sched_vars == <<sched, elapsed, active, day>>
call_vars == <<arg, ret>>
extra_vars == <<connections, other, frame>>

(***************************************************************************)
(* Bounds of the model                                                     *)
(***************************************************************************)
MaxSinkRows == 2        \* data rows of the sheet that Init fills
MaxClients == 2         \* client rows the database returns
MaxDays == 2            \* dates the clock shows while a scheduler runs

(***************************************************************************)
(* Python values                                                           *)
(***************************************************************************)
None == <<"None">>
PyTrue == <<"True">>
PyFalse == <<"False">>
PyBool(b) == IF b THEN PyTrue ELSE PyFalse

Max(a, b) == IF a >= b THEN a ELSE b
Min(a, b) == IF a <= b THEN a ELSE b
Range(s) == {s[k] : k \in 1..Len(s)}

\* str.isdigit is true of the ASCII digits and of other Unicode digits; the
\* one-character string "\u0663" (ARABIC-INDIC DIGIT THREE) stands for these
ArabicThree == "U+0663"
IsDigit(c) == c \in {"0", "1", "2", "3", "4", "5", "6", "7", "8", "9", ArabicThree}
IsSpace(c) == c \in {" "}

StartsWith(s, p) == Len(s) >= Len(p) /\ SubSeq(s, 1, Len(p)) = p

RECURSIVE LStrip(_)
LStrip(s) == IF s # <<>> /\ IsSpace(Head(s)) THEN LStrip(Tail(s)) ELSE s

RECURSIVE RStrip(_)
RStrip(s) ==
    IF s # <<>> /\ IsSpace(s[Len(s)]) THEN RStrip(SubSeq(s, 1, Len(s) - 1)) ELSE s

\* str.strip()
Strip(s) == RStrip(LStrip(s))

DigitChars == <<"0", "1", "2", "3", "4", "5", "6", "7", "8", "9">>

\* a Python int
PyInt(n) == <<"int", n>>
IsInt(v) == Len(v) = 2 /\ v[1] = "int"

RECURSIVE Decimal(_)
Decimal(n) ==
    IF n < 0 THEN <<"-">> \o Decimal(0 - n)
    ELSE IF n < 10 THEN <<DigitChars[n + 1]>>
    ELSE Decimal(n \div 10) \o <<DigitChars[(n % 10) + 1]>>

\* str(v): a string is itself, an int its decimal digits, True is 'True',
\* None is 'None'
PyStr(v) ==
    IF IsInt(v) THEN Decimal(v[2])
    ELSE IF v = PyTrue THEN <<"T", "r", "u", "e">>
    ELSE IF v = None THEN <<"N", "o", "n", "e">>
    ELSE v

\* truthiness: None, '', 0 and False are falsy
Truthy(v) == v # None /\ v # <<>> /\ v # PyFalse /\ ~(IsInt(v) /\ v[2] = 0)

\* what a call leaves when an exception comes out of it
Raised == <<"raised">>

(***************************************************************************)
(* normalize_phone                                                         *)
(***************************************************************************)
\* a normalization that returns the local number in international notation
normalize_phone_plus(phone) ==
    IF ~Truthy(phone) THEN <<>>
    ELSE LET digits == SelectSeq(PyStr(phone), IsDigit) IN
         IF StartsWith(digits, <<"3", "8", "0">>) THEN digits
         ELSE IF StartsWith(digits, <<"0">>) THEN <<"+", "3", "8">> \o digits
         ELSE IF Len(digits) = 10 THEN <<"3", "8", "0">> \o digits
         ELSE digits

\* a normalization that keeps the trunk digit behind the country code
normalize_phone_trunk(phone) ==
    IF ~Truthy(phone) THEN <<>>
    ELSE LET digits == SelectSeq(PyStr(phone), IsDigit) IN
         IF StartsWith(digits, <<"3", "8", "0">>) THEN digits
         ELSE IF StartsWith(digits, <<"0">>) THEN <<"3", "8", "0">> \o digits
         ELSE IF Len(digits) = 10 THEN <<"3", "8", "0">> \o digits
         ELSE digits

\* a normalization that filters its argument without str(): an int is not
\* iterable
normalize_phone_nostr(phone) ==
    IF ~Truthy(phone) THEN <<>>
    ELSE IF IsInt(phone) \/ phone = PyTrue THEN Raised
    ELSE LET digits == SelectSeq(phone, IsDigit) IN
         IF StartsWith(digits, <<"3", "8", "0">>) THEN digits
         ELSE IF StartsWith(digits, <<"0">>) THEN <<"3", "8">> \o digits
         ELSE IF Len(digits) = 10 THEN <<"3", "8", "0">> \o digits
         ELSE digits

normalize_phone(phone) ==
    IF ~Truthy(phone) THEN <<>>
    ELSE LET digits == SelectSeq(PyStr(phone), IsDigit) IN
         IF StartsWith(digits, <<"3", "8", "0">>) THEN digits
         ELSE IF StartsWith(digits, <<"0">>) THEN <<"3", "8">> \o digits
         ELSE IF Len(digits) = 10 THEN <<"3", "8", "0">> \o digits
         ELSE digits

(***************************************************************************)
(* Schema                                                                  *)
(***************************************************************************)
\* a map that has the columns of workbook and story the other way round
COLUMNS_swapped ==
    [date |-> 0, full_name |-> 1, phone |-> 2, telegram |-> 3,
     folder_created |-> 4, passport |-> 5, ecp |-> 6,
     registration |-> 7, family_income |-> 8, credit_contracts |-> 9,
     debt_certificates |-> 10, expenses |-> 11, bank_statements |-> 12,
     workbook |-> 14, story |-> 13]

COLUMNS == [date |-> 0, full_name |-> 1, phone |-> 2, telegram |-> 3,
            folder_created |-> 4, passport |-> 5, ecp |-> 6,
            registration |-> 7, family_income |-> 8, credit_contracts |-> 9,
            debt_certificates |-> 10, expenses |-> 11, bank_statements |-> 12,
            workbook |-> 13, story |-> 14]

DOC_TYPES == <<"passport", "ecp", "registration", "family_income",
               "credit_contracts", "debt_certificates", "expenses",
               "bank_statements", "workbook", "story">>

FIRST_DATA_ROW == 2

\* column letters used in the ranges the engine addresses
ColA == 0
ColC == 2
ColE == 4
ColF == 5
ColO == 14
ColZ == 25

\* columns of the sheet the model tracks: A..O, then P and Z (inside A:Z) and
\* AA (beyond Z); the columns Q..Y behave as P does
ColP == ColO + 1
ColAA == ColZ + 1
Cols == (ColA..ColO) \cup {ColP, ColZ, ColAA}

Blank == <<>>
BlankRow == [c \in Cols |-> Blank]

(***************************************************************************)
(* Ordered dictionaries (Python dict keeps insertion order): a sequence of *)
(* records [k, v] with distinct keys                                       *)
(***************************************************************************)
DictKeys(d) == [n \in 1..Len(d) |-> d[n].k]
DictHas(d, key) == \E n \in 1..Len(d) : d[n].k = key
DictGet(d, key) == d[CHOOSE n \in 1..Len(d) : d[n].k = key].v
DictSet(d, key, val) ==
    IF DictHas(d, key)
    THEN [n \in 1..Len(d) |-> IF d[n].k = key THEN [k |-> key, v |-> val] ELSE d[n]]
    ELSE Append(d, [k |-> key, v |-> val])

(***************************************************************************)
(* The sheet as the Sheets API shows it                                    *)
(***************************************************************************)
TRUE_CELL == <<"T", "R", "U", "E">>
FALSE_CELL == <<"F", "A", "L", "S", "E">>

RECURSIVE DropLeadingZeros(_)
DropLeadingZeros(s) ==
    IF Len(s) > 1 /\ Head(s) = "0" THEN DropLeadingZeros(Tail(s)) ELSE s

\* valueInputOption USER_ENTERED: the sheet types the value as if it were
\* typed in: a boolean becomes TRUE / FALSE, a string of digits a number
\* (shown without leading zeros), any other string stays as it is
UserEntered(v) ==
    IF v = PyTrue THEN TRUE_CELL
    ELSE IF v = PyFalse THEN FALSE_CELL
    ELSE IF v # <<>> /\ \A n \in 1..Len(v) : IsDigit(v[n]) THEN DropLeadingZeros(v)
    ELSE v

\* one row of values().get over A:O: trailing empty cells are left out
RowValues(row) ==
    LET filled == {c \in ColA..ColO : row[c] # Blank}
        n == IF filled = {} THEN 0 ELSE (CHOOSE c \in filled : \A d \in filled : d <= c) + 1
    IN  [c \in 1..n |-> row[c - 1]]

\* values().get over A:O: trailing empty rows are left out
GetValues(g) ==
    LET filled == {r \in 1..Len(g) : RowValues(g[r]) # <<>>}
        n == IF filled = {} THEN 0 ELSE CHOOSE r \in filled : \A q \in filled : q <= r
    IN  [r \in 1..n |-> RowValues(g[r])]

\* a range write: columns c1..c2 of rows r1..r2 take the given values; cells
\* the values do not reach keep their content
InRange(w, r, c) ==
    /\ w.range.r1 <= r /\ r <= w.range.r2
    /\ w.range.c1 <= c /\ c <= w.range.c2
    /\ r - w.range.r1 + 1 <= Len(w.values)
    /\ c - w.range.c1 + 1 <= Len(w.values[r - w.range.r1 + 1])

ApplyWrite(g, w) ==
    [r \in 1..Max(Len(g), w.range.r2) |->
        [c \in Cols |->
            IF InRange(w, r, c)
            THEN UserEntered(w.values[r - w.range.r1 + 1][c - w.range.c1 + 1])
            ELSE IF r <= Len(g) THEN g[r][c] ELSE Blank]]

\* the range writes of one batch request, applied in order: a cell takes the
\* value of the last write that reaches it
ApplyWrites(g, ws) ==
    LET rows == {Len(g)} \cup {ws[n].range.r2 : n \in 1..Len(ws)}
        last == CHOOSE r \in rows : \A q \in rows : q <= r
    IN  [r \in 1..last |->
            IF \A n \in 1..Len(ws) : r < ws[n].range.r1 \/ r > ws[n].range.r2
            THEN IF r <= Len(g) THEN g[r] ELSE BlankRow
            ELSE [c \in Cols |->
                    LET hits == {n \in 1..Len(ws) : InRange(ws[n], r, c)} IN
                    IF hits = {}
                    THEN IF r <= Len(g) THEN g[r][c] ELSE Blank
                    ELSE LET w == ws[CHOOSE n \in hits : \A m \in hits : m <= n] IN
                         UserEntered(w.values[r - w.range.r1 + 1]
                                             [c - w.range.c1 + 1])]]

(***************************************************************************)
(* SheetsManager.get_existing_phones                                       *)
(***************************************************************************)
\* a reader that keys a row by its phone cell as typed
RowPhoneKey_raw(row) ==
    IF row # <<>> /\ Len(row) > 2
    THEN IF Truthy(row[3]) THEN Strip(row[3]) ELSE <<>>
    ELSE <<>>

\* the key of one row of the values, <<>> when the row is not keyed
RowPhoneKey(row) ==
    IF row # <<>> /\ Len(row) > 2
    THEN LET phone == IF Truthy(row[3]) THEN Strip(row[3]) ELSE <<>> IN
         IF phone # <<>> THEN normalize_phone(phone) ELSE <<>>
    ELSE <<>>

\* a reader that keys the header row like any other row
RECURSIVE ScanRows_header(_, _, _)
ScanRows_header(values, idx, phones) ==
    IF idx >= Len(values) THEN phones
    ELSE LET norm == RowPhoneKey(values[idx + 1]) IN
         IF norm # <<>>
         THEN ScanRows_header(values, idx + 1,
                              DictSet(phones, norm,
                                      IF DictHas(phones, norm)
                                      THEN Append(DictGet(phones, norm), idx + 1)
                                      ELSE <<idx + 1>>))
         ELSE ScanRows_header(values, idx + 1, phones)

RECURSIVE ScanRows(_, _, _)
ScanRows(values, idx, phones) ==
    IF idx >= Len(values) THEN phones
    ELSE IF idx < FIRST_DATA_ROW - 1 THEN ScanRows(values, idx + 1, phones)
    ELSE LET norm == RowPhoneKey(values[idx + 1]) IN
         IF norm # <<>>
         THEN ScanRows(values, idx + 1,
                       DictSet(phones, norm,
                               IF DictHas(phones, norm)
                               THEN Append(DictGet(phones, norm), idx + 1)
                               ELSE <<idx + 1>>))
         ELSE ScanRows(values, idx + 1, phones)

get_existing_phones(g) == ScanRows(GetValues(g), 0, <<>>)

(***************************************************************************)
(* sync_to_sheets, step 2: the roster, clients merged by normalized phone  *)
(***************************************************************************)
\* set(client.get('document_types') or [])
DocTypeSet(document_types) ==
    IF document_types = None THEN {} ELSE Range(document_types)

\* x or ''
OrEmpty(v) == IF Truthy(v) THEN v ELSE <<>>

\* merge that keeps the first record of a phone and drops the later ones
MergeClient_first(clients_by_phone, client) ==
    IF ~Truthy(client.phone) THEN clients_by_phone
    ELSE LET phone_norm == normalize_phone(client.phone) IN
         IF phone_norm = <<>> \/ DictHas(clients_by_phone, phone_norm)
         THEN clients_by_phone
         ELSE DictSet(clients_by_phone, phone_norm,
                      [full_name |-> OrEmpty(client.full_name),
                       telegram_id |-> client.telegram_id,
                       created_at |-> client.created_at,
                       drive_folder_url |-> OrEmpty(client.drive_folder_url),
                       doc_types |-> DocTypeSet(client.document_types)])

\* merge that files a phone without digits under the empty key
MergeClient_nodigit(clients_by_phone, client) ==
    IF ~Truthy(client.phone) THEN clients_by_phone
    ELSE LET phone_norm == normalize_phone(client.phone) IN
         IF DictHas(clients_by_phone, phone_norm) THEN clients_by_phone
         ELSE DictSet(clients_by_phone, phone_norm,
                      [full_name |-> OrEmpty(client.full_name),
                       telegram_id |-> client.telegram_id,
                       created_at |-> client.created_at,
                       drive_folder_url |-> OrEmpty(client.drive_folder_url),
                       doc_types |-> DocTypeSet(client.document_types)])

\* merge in which the folder of a later record replaces the one kept so far
MergeClient_overwrite(clients_by_phone, client) ==
    IF ~Truthy(client.phone) THEN clients_by_phone
    ELSE LET phone_norm == normalize_phone(client.phone)
             doc_types == DocTypeSet(client.document_types)
         IN
         IF phone_norm = <<>> THEN clients_by_phone
         ELSE IF ~DictHas(clients_by_phone, phone_norm)
         THEN DictSet(clients_by_phone, phone_norm,
                      [full_name |-> OrEmpty(client.full_name),
                       telegram_id |-> client.telegram_id,
                       created_at |-> client.created_at,
                       drive_folder_url |-> OrEmpty(client.drive_folder_url),
                       doc_types |-> doc_types])
         ELSE LET old == DictGet(clients_by_phone, phone_norm) IN
              DictSet(clients_by_phone, phone_norm,
                      [old EXCEPT
                        !.doc_types = old.doc_types \cup doc_types,
                        !.drive_folder_url = OrEmpty(client.drive_folder_url)])

MergeClient(clients_by_phone, client) ==
    IF ~Truthy(client.phone) THEN clients_by_phone
    ELSE LET phone_norm == normalize_phone(client.phone)
             doc_types == DocTypeSet(client.document_types)
         IN
         IF phone_norm = <<>> THEN clients_by_phone
         ELSE IF ~DictHas(clients_by_phone, phone_norm)
         THEN DictSet(clients_by_phone, phone_norm,
                      [full_name |-> OrEmpty(client.full_name),
                       telegram_id |-> client.telegram_id,
                       created_at |-> client.created_at,
                       drive_folder_url |-> OrEmpty(client.drive_folder_url),
                       doc_types |-> doc_types])
         ELSE LET old == DictGet(clients_by_phone, phone_norm) IN
              DictSet(clients_by_phone, phone_norm,
                      [old EXCEPT
                        !.doc_types = old.doc_types \cup doc_types,
                        !.drive_folder_url =
                            IF ~Truthy(old.drive_folder_url)
                               /\ Truthy(client.drive_folder_url)
                            THEN client.drive_folder_url
                            ELSE old.drive_folder_url])

RECURSIVE MergeClients(_, _)
MergeClients(clients_by_phone, clients) ==
    IF clients = <<>> THEN clients_by_phone
    ELSE MergeClients(MergeClient(clients_by_phone, Head(clients)), Tail(clients))

\* clients_by_phone after the loop of step 2
Roster(clients) == MergeClients(<<>>, clients)

(***************************************************************************)
(* sync_to_sheets, step 4: canonical rows, duplicate clears, last row      *)
(***************************************************************************)
\* a range: columns c1..c2 (0 = A) of rows r1..r2
Rng(c1, r1, c2, r2) == [c1 |-> c1, r1 |-> r1, c2 |-> c2, r2 |-> r2]

\* the row kept for a key: rows[0]
CanonicalRow_last(rows) == rows[Len(rows)]

CanonicalRow(rows) == rows[1]

\* the rows cleared for a key: rows[1:]
DuplicateRows_all(rows) == rows

DuplicateRows_none(rows) == <<>>

DuplicateRows(rows) == Tail(rows)

\* the blank-out of one duplicate row: A{dup_row}:Z{dup_row}, [''] * 26
ClearRequest(dup_row) ==
    [range |-> Rng(ColA, dup_row, ColZ, dup_row),
     values |-> <<[c \in 1..26 |-> <<>>]>>]

RECURSIVE ClearsOf(_)
ClearsOf(rows) ==
    IF rows = <<>> THEN <<>> ELSE <<ClearRequest(Head(rows))>> \o ClearsOf(Tail(rows))

RECURSIVE DuplicateClears(_)
DuplicateClears(existing) ==
    IF existing = <<>> THEN <<>>
    ELSE ClearsOf(DuplicateRows(Head(existing).v)) \o DuplicateClears(Tail(existing))

NormalizedExisting(existing) ==
    [n \in 1..Len(existing) |-> [k |-> existing[n].k, v |-> CanonicalRow(existing[n].v)]]

RECURSIVE MaxOf(_, _)
MaxOf(rows, m) ==
    IF rows = <<>> THEN m
    ELSE MaxOf(Tail(rows), IF Head(rows) > m THEN Head(rows) ELSE m)

RECURSIVE LastRowFrom(_, _)
LastRowFrom(existing, m) ==
    IF existing = <<>> THEN m
    ELSE LastRowFrom(Tail(existing), MaxOf(Head(existing).v, m))

\* a last row taken over the first row of each phone only
LastRow_canonical(existing) ==
    LastRowFrom([n \in 1..Len(existing) |->
                    [k |-> existing[n].k, v |-> <<CanonicalRow(existing[n].v)>>]],
                FIRST_DATA_ROW - 1)

LastRow(existing) == LastRowFrom(existing, FIRST_DATA_ROW - 1)

(***************************************************************************)
(* sync_to_sheets, step 5: updates for known phones, rows for new ones     *)
(***************************************************************************)
\* created.strftime('%d.%m.%Y') of a timestamp written YYYY-MM-DD
StrfDate(created) ==
    SubSeq(created, 9, 10) \o <<".">> \o SubSeq(created, 6, 7) \o <<".">>
        \o SubSeq(created, 1, 4)

\* the date of the d-th day
DateOf(d) == <<"2", "0", "2", "5", "-", "0", "3", "-", "1">> \o <<DigitChars[d + 1]>>

\* datetime.now() of the run
Today == DateOf(day)

TelegramLink(telegram_id) ==
    IF Truthy(telegram_id)
    THEN <<"t", "g", ":", "/", "/", "u", "s", "e", "r", "?", "i", "d", "=">>
             \o telegram_id
    ELSE <<>>

\* one True for every document type the client has uploaded
Checkboxes_present(doc_types) ==
    [n \in 1..Cardinality({d \in 1..Len(DOC_TYPES) : DOC_TYPES[d] \in doc_types})
        |-> PyTrue]

\* [doc in doc_types for doc in DOC_TYPES]
Checkboxes(doc_types) ==
    [n \in 1..Len(DOC_TYPES) |-> PyBool(DOC_TYPES[n] \in doc_types)]

\* range writes that refresh the name along with the phone: B..C, E, F..O
UpdateGroup_named(existing_row, phone_norm, data) ==
    << [range |-> Rng(ColA + 1, existing_row, ColC, existing_row),
        values |-> << <<data.full_name, phone_norm>> >>],
       [range |-> Rng(ColE, existing_row, ColE, existing_row),
        values |-> << <<data.drive_folder_url>> >>],
       [range |-> Rng(ColF, existing_row, ColO, existing_row),
        values |-> <<Checkboxes(data.doc_types)>>] >>

\* the three range writes of a phone that has a row
UpdateGroup(existing_row, phone_norm, data) ==
    << [range |-> Rng(ColC, existing_row, ColC, existing_row),
        values |-> << <<phone_norm>> >>],
       [range |-> Rng(ColE, existing_row, ColE, existing_row),
        values |-> << <<data.drive_folder_url>> >>],
       [range |-> Rng(ColF, existing_row, ColO, existing_row),
        values |-> <<Checkboxes(data.doc_types)>>] >>

\* the payload of the row of a new phone
RowData_swapped(phone_norm, data) ==
    << IF data.created_at # None THEN StrfDate(data.created_at) ELSE StrfDate(Today),
       data.full_name,
       TelegramLink(data.telegram_id),
       phone_norm,
       data.drive_folder_url >> \o Checkboxes(data.doc_types)

\* a payload that writes the phone in international notation
RowData_plus(phone_norm, data) ==
    << IF data.created_at # None THEN StrfDate(data.created_at) ELSE StrfDate(Today),
       data.full_name,
       <<"+">> \o phone_norm,
       TelegramLink(data.telegram_id),
       data.drive_folder_url >> \o Checkboxes(data.doc_types)

RowData(phone_norm, data) ==
    << IF data.created_at # None THEN StrfDate(data.created_at) ELSE StrfDate(Today),
       data.full_name,
       phone_norm,
       TelegramLink(data.telegram_id),
       data.drive_folder_url >> \o Checkboxes(data.doc_types)

\* the row remembered for a new phone: last_row + len(new_rows), taken after
\* the row was added to new_rows
PlannedRow(last, new) == last + Len(new)

\* one pass of the loop over clients_by_phone.items()
PlanEntry(acc, last, entry) ==
    IF DictHas(acc.normalized_existing, entry.k)
       /\ DictGet(acc.normalized_existing, entry.k) # 0
    THEN [acc EXCEPT !.all_updates =
              @ \o UpdateGroup(DictGet(acc.normalized_existing, entry.k),
                               entry.k, entry.v)]
    ELSE LET new == Append(acc.new_rows, RowData(entry.k, entry.v)) IN
         [acc EXCEPT !.new_rows = new,
                     !.normalized_existing =
                         DictSet(@, entry.k, PlannedRow(last, new))]

RECURSIVE PlanEntries(_, _, _)
PlanEntries(acc, last, entries) ==
    IF entries = <<>> THEN acc
    ELSE PlanEntries(PlanEntry(acc, last, Head(entries)), last, Tail(entries))

\* steps 4 and 5 on a roster and a snapshot
Plan(clients_by_phone, existing) ==
    PlanEntries([normalized_existing |-> NormalizedExisting(existing),
                 all_updates |-> <<>>,
                 new_rows |-> <<>>],
                LastRow(existing), clients_by_phone)

\* the range of the append write: A{last_row + 1}:O{last_row + len(new_rows)}
AppendRange_overlap(last, new) == Rng(ColA, last, ColO, last + Len(new) - 1)

AppendRange(last, new) == Rng(ColA, last + 1, ColO, last + Len(new))

AppendRequest(last, new) == [range |-> AppendRange(last, new), values |-> new]

\* the chunk of a list that starts at offset idx
chunk_size == 100

\* chunks that stop one entry short of chunk_size
Chunk_short(list, idx) ==
    SubSeq(list, idx + 1, Min(idx + chunk_size - 1, Len(list)))

Chunk(list, idx) == SubSeq(list, idx + 1, Min(idx + chunk_size, Len(list)))

(***************************************************************************)
(* Inputs: the clients of the database and the content of the sheet        *)
(***************************************************************************)
K1 == <<"3", "8", "0", "5", "0", "1", "2", "3", "4", "5", "6", "7">>
K2 == <<"3", "8", "0", "6", "7", "1", "1", "1", "2", "2", "3", "3">>
K3 == <<"3", "8", "0", "1", "2", "3", "4", "5", "6", "7", "8", "9", "0">>

Client(name, phone, tg, url, created, docs) ==
    [full_name |-> name, phone |-> phone, telegram_id |-> tg,
     drive_folder_url |-> url, created_at |-> created, document_types |-> docs]

Day1 == <<"2", "0", "2", "5", "-", "0", "1", "-", "0", "5">>
Day2 == <<"2", "0", "2", "5", "-", "0", "2", "-", "1", "7">>

ClientPool ==
    { Client(<<"A", "n", "n">>,
             <<"+", "3", "8", "0", "5", "0", "1", "2", "3", "4", "5", "6", "7">>,
             <<"7", "1">>, None, Day2, <<"passport", "ecp">>),
      Client(<<"A", "n", "n", "a">>,
             <<"0", "5", "0", " ", "1", "2", "3", "4", "5", "6", "7">>,
             None, <<"u", "1">>, Day1, <<"ecp", "story">>),
      Client(<<"B", "o", "b">>,
             <<"0", "6", "7", "1", "1", "1", "2", "2", "3", "3">>,
             <<"7", "2">>, <<"u", "2">>, Day1, None),
      Client(<<"E", "v", "e">>,
             <<"1", "2", "3", "4", "5", "6", "7", "8", "9", "0">>,
             None, <<>>, Day2, <<"workbook">>) }

\* the rows a sheet holds before the engine runs: written by hand or by
\* earlier runs, with notes in columns the engine does not own
SheetRow(name, phone, url) ==
    [c \in Cols |->
        CASE c = COLUMNS.date -> <<"0", "1", ".", "0", "1", ".", "2", "0", "2", "5">>
          [] c = COLUMNS.full_name -> name
          [] c = COLUMNS.phone -> phone
          [] c = COLUMNS.folder_created -> url
          [] c = ColP -> <<"n", "o", "t", "e">>
          [] c = ColAA -> <<"m", "e", "m", "o">>
          [] OTHER -> Blank]

RowPool ==
    { BlankRow,
      \* a phone cell without digits
      SheetRow(<<"Z", "o", "e">>, <<"n", "/", "a">>, <<"u", "9">>),
      \* K1 typed in local format
      SheetRow(<<"A", "n", "n">>,
               <<" ", "0", "5", "0", "-", "1", "2", "3", "-", "4", "5", "-", "6", "7">>,
               Blank),
      SheetRow(<<"A", "n", "n">>, K1, <<"u", "0">>),
      SheetRow(<<"B", "o", "b">>, K2, Blank) }

HeaderRow ==
    [c \in Cols |->
        CASE c = COLUMNS.date -> <<"D", "a", "t", "e">>
          [] c = COLUMNS.full_name -> <<"N", "a", "m", "e">>
          [] c = COLUMNS.phone -> <<"P", "h", "o", "n", "e">>
          [] OTHER -> Blank]

\* the query groups by client id: every client is returned once
Stores ==
    UNION {{st \in [1..n -> ClientPool] :
               \A a, b \in 1..n : a # b => st[a] # st[b]} : n \in 0..MaxClients}
Sheets == {<<HeaderRow>> \o rows : rows \in [1..MaxSinkRows -> RowPool]}

\* the worker before its first cycle, over the given stores and sheets
SyncInit(stores, sheets) ==
    /\ store \in stores
    /\ grid \in sheets
    /\ rowCount = Len(grid) + 1
    /\ pc = "idle"
    /\ existing_phones = <<>>
    /\ normalized_existing = <<>>
    /\ last_row = FIRST_DATA_ROW - 1
    /\ duplicate_clears = <<>>
    /\ all_updates = <<>>
    /\ new_rows = <<>>
    /\ i = 0
    /\ log = <<>>
    /\ occupied0 = {}
    /\ outcome = "none"
    /\ prev = "none"

\* ret before the function under study has returned
Pending == <<"pending">>

NoCall == arg = None /\ ret = Pending

Init ==
    /\ SyncInit(Stores, Sheets)
    /\ sched = "once"
    /\ elapsed = 0
    /\ active = 0
    /\ day = 1
    /\ connections = 0
    /\ other = None
    /\ frame = None
    /\ NoCall

(***************************************************************************)
(* The cycle                                                               *)
(***************************************************************************)
plan_vars == <<existing_phones, normalized_existing, last_row,
               duplicate_clears, all_updates, new_rows, occupied0>>

\* the order of the write steps 6..9 and the close
StepAfter_updates_first(step) ==
    CASE step = "clear" -> "update"
      [] step = "update" -> "ensure"
      [] step = "ensure" -> "append"
      [] step = "append" -> "close"

StepAfter(step) ==
    CASE step = "clear" -> "ensure"
      [] step = "ensure" -> "append"
      [] step = "append" -> "update"
      [] step = "update" -> "close"

\* the next step that does something: `if duplicate_clears:`, `if new_rows:`
\* and `if all_updates:` skip the steps 6, 8 and 9 of an empty list
RECURSIVE Enter(_, _, _, _)
Enter(step, clears, new, updates) ==
    IF \/ step = "clear" /\ clears = <<>>
       \/ step = "append" /\ new = <<>>
       \/ step = "update" /\ updates = <<>>
    THEN Enter(StepAfter(step), clears, new, updates)
    ELSE step

Occupied(g) == {r \in 1..Len(g) : \E c \in Cols : g[r][c] # Blank}

Wrote(l) == \E n \in 1..Len(l) : l[n].ok /\ l[n].kind # "grow"

\* an exception leaves sync_to_sheets: logged and re-raised, the scheduler
\* logs it and sleeps
Raise(l) ==
    /\ pc' = "idle"
    /\ outcome' = IF Wrote(l) THEN "failed_partway" ELSE "failed_unwritten"
    /\ log' = l

\* a cycle that plans from the snapshot of the cycle before it when it has one
StartCycle_cached ==
    /\ pc = "idle"
    /\ \E existing \in {IF existing_phones # <<>> THEN existing_phones
                         ELSE get_existing_phones(grid)} :
       \E p \in {Plan(Roster(store), existing)} :
       \E clears \in {DuplicateClears(existing)} :
           /\ existing_phones' = existing
           /\ normalized_existing' = p.normalized_existing
           /\ last_row' = LastRow(existing)
           /\ duplicate_clears' = clears
           /\ all_updates' = p.all_updates
           /\ new_rows' = p.new_rows
           /\ pc' = Enter("clear", clears, p.new_rows, p.all_updates)
    /\ occupied0' = Occupied(grid)
    /\ i' = 0
    /\ log' = <<>>
    /\ prev' = outcome
    /\ UNCHANGED <<store, grid, rowCount, outcome>>

\* steps 1..5: read the database, read the sheet, plan
StartCycle ==
    /\ pc = "idle"
    /\ \E existing \in {get_existing_phones(grid)} :
       \E p \in {Plan(Roster(store), existing)} :
       \E clears \in {DuplicateClears(existing)} :
           /\ existing_phones' = existing
           /\ normalized_existing' = p.normalized_existing
           /\ last_row' = LastRow(existing)
           /\ duplicate_clears' = clears
           /\ all_updates' = p.all_updates
           /\ new_rows' = p.new_rows
           /\ pc' = Enter("clear", clears, p.new_rows, p.all_updates)
    /\ occupied0' = Occupied(grid)
    /\ i' = 0
    /\ log' = <<>>
    /\ prev' = outcome
    /\ UNCHANGED <<store, grid, rowCount, outcome>>

\* the database or the read of the sheet fails: nothing is planned or written
ReadFails ==
    /\ pc = "idle"
    /\ prev' = outcome
    /\ Raise(<<>>)
    /\ existing_phones' = <<>>
    /\ normalized_existing' = <<>>
    /\ last_row' = FIRST_DATA_ROW - 1
    /\ duplicate_clears' = <<>>
    /\ all_updates' = <<>>
    /\ new_rows' = <<>>
    /\ occupied0' = Occupied(grid)
    /\ i' = 0
    /\ UNCHANGED <<store, grid, rowCount>>

RangesOf(ws) == [n \in 1..Len(ws) |-> ws[n].range]

\* a remote request as the log keeps it: its kind, the ranges it addresses
\* (the length, for a grow request), whether it succeeded, and the capacity
\* of the sheet when it was issued
Request(kind, data, ok) ==
    [kind |-> kind, data |-> data, ok |-> ok, rowCount |-> rowCount]

Goto(step) == Enter(step, duplicate_clears, new_rows, all_updates)

\* a loop that logs the failure of a chunk and goes on with the next chunk
BatchUpdate_continue(step, list) ==
    /\ pc = step
    /\ i < Len(list)
    /\ \E chunk \in {Chunk(list, i)} : \E ok \in BOOLEAN :
          /\ grid' = IF ok THEN ApplyWrites(grid, chunk) ELSE grid
          /\ log' = Append(log, Request(step, RangesOf(chunk), ok))
          /\ IF i + chunk_size < Len(list)
             THEN i' = i + chunk_size /\ pc' = pc
             ELSE i' = 0 /\ pc' = Goto(StepAfter(step))
          /\ UNCHANGED outcome
    /\ UNCHANGED <<store, rowCount, prev, plan_vars>>

\* SheetsManager.batch_update of one chunk of the loop of step 6 or 9
BatchUpdate(step, list) ==
    /\ pc = step
    /\ i < Len(list)
    /\ \E chunk \in {Chunk(list, i)} :
       \/ /\ grid' = ApplyWrites(grid, chunk)
          /\ log' = Append(log, Request(step, RangesOf(chunk), TRUE))
          /\ IF i + chunk_size < Len(list)
             THEN i' = i + chunk_size /\ pc' = pc
             ELSE i' = 0 /\ pc' = Goto(StepAfter(step))
          /\ UNCHANGED outcome
       \/ /\ Raise(Append(log, Request(step, RangesOf(chunk), FALSE)))
          /\ UNCHANGED <<grid, i>>
    /\ UNCHANGED <<store, rowCount, prev, plan_vars>>

\* step 6
ClearDuplicates == BatchUpdate("clear", duplicate_clears)

\* step 7: SheetsManager.ensure_rows; it logs and swallows every exception
ToAdd(needed_rows, current) == needed_rows - current + 50

EnsureRows ==
    /\ pc = "ensure"
    /\ \E needed_rows \in {last_row + Len(new_rows)} :
       \/ \* the metadata read raises, or no sheet has the title
          UNCHANGED <<rowCount, log>>
       \/ /\ needed_rows <= rowCount
          /\ UNCHANGED <<rowCount, log>>
       \/ /\ needed_rows > rowCount
          /\ \/ /\ rowCount' = rowCount + ToAdd(needed_rows, rowCount)
                /\ log' = Append(log, Request("grow", ToAdd(needed_rows, rowCount), TRUE))
             \/ \* the appendDimension request raises
                /\ log' = Append(log, Request("grow", ToAdd(needed_rows, rowCount), FALSE))
                /\ UNCHANGED rowCount
    /\ pc' = Goto(StepAfter("ensure"))
    /\ UNCHANGED <<store, grid, i, outcome, prev, plan_vars>>

\* an append that sends every new row in a request of its own
AppendRows_each ==
    /\ pc = "append"
    /\ \E req \in {[range |-> Rng(ColA, last_row + i + 1, ColO, last_row + i + 1),
                     values |-> <<new_rows[i + 1]>>]} :
       \/ /\ req.range.r2 <= rowCount
          /\ grid' = ApplyWrite(grid, req)
          /\ log' = Append(log, Request("append", <<req.range>>, TRUE))
          /\ IF i + 1 < Len(new_rows)
             THEN i' = i + 1 /\ pc' = pc
             ELSE i' = 0 /\ pc' = Goto(StepAfter("append"))
          /\ UNCHANGED outcome
       \/ /\ Raise(Append(log, Request("append", <<req.range>>, FALSE)))
          /\ UNCHANGED <<grid, i>>
    /\ UNCHANGED <<store, rowCount, prev, plan_vars>>

\* step 8: one values().update for all new rows; the API rejects a range
\* that exceeds the grid
AppendRows ==
    /\ pc = "append"
    /\ \E req \in {AppendRequest(last_row, new_rows)} :
       \/ /\ req.range.r2 <= rowCount
          /\ grid' = ApplyWrite(grid, req)
          /\ log' = Append(log, Request("append", <<req.range>>, TRUE))
          /\ pc' = Goto(StepAfter("append"))
          /\ UNCHANGED outcome
       \/ /\ Raise(Append(log, Request("append", <<req.range>>, FALSE)))
          /\ UNCHANGED grid
    /\ UNCHANGED <<store, rowCount, i, prev, plan_vars>>

\* step 9
UpdateExisting == BatchUpdate("update", all_updates)

\* the cycle returns
Close ==
    /\ pc = "close"
    /\ pc' = "idle"
    /\ outcome' = "ok"
    /\ UNCHANGED <<store, grid, rowCount, i, log, prev, plan_vars>>

\* sync_to_sheets run by hand (--once): neither scheduler nor function call
Once == UNCHANGED <<sched_vars, call_vars, extra_vars>>

Next ==
    \/ StartCycle /\ Once
    \/ ReadFails /\ Once
    \/ ClearDuplicates /\ Once
    \/ EnsureRows /\ Once
    \/ AppendRows /\ Once
    \/ UpdateExisting /\ Once
    \/ Close /\ Once

Spec == Init /\ [][Next]_vars

TypeOK ==
    /\ pc \in {"idle", "clear", "ensure", "append", "update", "close"}
    /\ outcome \in {"none", "ok", "failed_unwritten", "failed_partway"}
    /\ Len(grid) <= rowCount

(***************************************************************************)
(* Steps 1..5 on their own: the plan as a function of store and sheet      *)
(***************************************************************************)
NextPlan == StartCycle /\ Once

SpecPlan == Init /\ [][NextPlan]_vars

(***************************************************************************)
(* normalize_phone called on its own                                       *)
(***************************************************************************)
MaxHead == 3            \* characters of a phone drawn freely from PhoneChars
MaxTail == 10           \* subscriber digits that follow them

PhoneChars == {"0", "3", "8", "5", "+", ArabicThree}

Repeat(c, k) == [j \in 1..k |-> c]

Heads == UNION {[1..k -> PhoneChars] : k \in 0..MaxHead}

\* the phones the specification quotes
ExamplePhones ==
    {<<"0", "5", "0", "1", "2", "3", "4", "5", "6", "7">>,
     <<"+", "3", "8", "0", "5", "0", "1", "2", "3", "4", "5", "6", "7">>,
     <<"3", "8", "0", "5", "0", "1", "2", "3", "4", "5", "6", "7">>,
     <<"1", "2", "3", "4", "5", "6", "7", "8", "9", "0">>}

PhoneInputs ==
    {None} \cup ExamplePhones
           \cup {h \o Repeat("5", k) : h \in Heads, k \in 0..MaxTail}

InitNorm ==
    /\ SyncInit({<<>>}, {<<HeaderRow>>})
    /\ sched = "once"
    /\ elapsed = 0
    /\ active = 0
    /\ day = 1
    /\ connections = 0
    /\ other = None
    /\ frame = None
    /\ arg \in PhoneInputs
    /\ ret = Pending

CallNormalizePhone ==
    /\ ret = Pending
    /\ ret' = normalize_phone(arg)
    /\ UNCHANGED <<arg, sched_vars, extra_vars, store, grid, rowCount, pc,
                   plan_vars, i, log, outcome, prev>>

NextNorm == CallNormalizePhone

SpecNorm == InitNorm /\ [][NextNorm]_vars

\* values that are not strings: ints that take each branch, and booleans
NonStringInputs ==
    {PyInt(0), PyInt(7), PyInt(0 - 7), PyInt(380501), PyInt(501234567),
     PyInt(1234567890), PyTrue, PyFalse}

AnyInputs == PhoneInputs \cup NonStringInputs

InitAny ==
    /\ SyncInit({<<>>}, {<<HeaderRow>>})
    /\ sched = "once"
    /\ elapsed = 0
    /\ active = 0
    /\ day = 1
    /\ connections = 0
    /\ other = None
    /\ frame = None
    /\ arg \in AnyInputs
    /\ ret = Pending

NextAny == CallNormalizePhone

\* normalize_phone has no loop and waits for nothing: a call goes through
SpecAny == InitAny /\ [][NextAny]_vars /\ WF_vars(CallNormalizePhone)

(***************************************************************************)
(* run_scheduler                                                           *)
(***************************************************************************)
SYNC_INTERVAL == 4 * 60 * 60        \* seconds
Tick == 60 * 60                     \* seconds of sleep that pass in one step

\* a scheduler that calls sync_to_sheets again at once when it failed
OnReturn_retry(result) == IF result = "ok" THEN "sleep" ELSE "call"

\* where the loop goes when sync_to_sheets returned ("ok") or raised
OnReturn(result) == "sleep"

\* a scheduler that starts the cycle in the background and goes to sleep
AfterCall_async == "sleep"

\* where the loop is while sync_to_sheets runs: inside the call
AfterCall == "blocked"

SleepOver(slept) == slept >= SYNC_INTERVAL

\* a client whose created_at is null
Undated ==
    Client(<<"U", "n", "a">>, <<"0", "9", "3", "5", "5", "5", "0", "0", "1", "1">>,
           None, <<"u", "6">>, None, <<"passport">>)

\* one client and two data rows, of every kind of the pools
SchedStores == {<<c>> : c \in ClientPool \cup {Undated}}
SchedSheets == {<<HeaderRow, r1, r2>> : r1, r2 \in RowPool}

InitSched ==
    /\ SyncInit(SchedStores, SchedSheets)
    /\ sched = "call"
    /\ elapsed = 0
    /\ active = 0
    /\ day = 1
    /\ connections = 0
    /\ other = None
    /\ frame = None
    /\ NoCall

\* the loop calls sync_to_sheets()
SchedCall ==
    /\ sched = "call"
    /\ sched' = AfterCall
    /\ active' = active + 1
    /\ UNCHANGED <<elapsed, day, call_vars, extra_vars, store, grid, rowCount,
                   pc, plan_vars, i, log, outcome, prev>>

\* a step of a called sync_to_sheets; when it returns or raises, the loop
\* that waits for it logs and starts time.sleep(SYNC_INTERVAL)
RunCall(step) ==
    /\ active >= 1
    /\ step
    /\ IF pc' = "idle"
       THEN /\ active' = active - 1
            /\ UNCHANGED day
            /\ IF sched = "blocked"
               THEN sched' = OnReturn(outcome') /\ elapsed' = 0
               ELSE UNCHANGED <<sched, elapsed>>
       ELSE UNCHANGED sched_vars
    /\ UNCHANGED call_vars

Run(step) == RunCall(step) /\ UNCHANGED extra_vars

\* time.sleep(SYNC_INTERVAL): time passes, and midnight may pass with it
SchedTick ==
    /\ sched = "sleep"
    /\ ~SleepOver(elapsed)
    /\ elapsed' = elapsed + Tick
    /\ day' \in {day, Min(day + 1, MaxDays)}
    /\ UNCHANGED <<sched, active, call_vars, extra_vars, store, grid, rowCount,
                   pc, plan_vars, i, log, outcome, prev>>

\* time.sleep returns and the loop goes round
SchedWake ==
    /\ sched = "sleep"
    /\ SleepOver(elapsed)
    /\ sched' = "call"
    /\ UNCHANGED <<elapsed, active, day, call_vars, extra_vars, store, grid,
                   rowCount, pc, plan_vars, i, log, outcome, prev>>

NextSched ==
    \/ SchedCall
    \/ Run(StartCycle)
    \/ Run(ReadFails)
    \/ Run(ClearDuplicates)
    \/ Run(EnsureRows)
    \/ Run(AppendRows)
    \/ Run(UpdateExisting)
    \/ Run(Close)
    \/ SchedTick
    \/ SchedWake

\* the thread of the scheduler runs on: a sleep goes by and ends, and the
\* loop makes its next call; a remote call of a cycle may never return
SpecSched ==
    /\ InitSched
    /\ [][NextSched]_vars
    /\ WF_vars(SchedTick)
    /\ WF_vars(SchedWake)
    /\ WF_vars(SchedCall)

(***************************************************************************)
(* The Database connection of a cycle under run_scheduler                  *)
(***************************************************************************)
MaxConnections == 3     \* open connections beyond which no cycle is started

\* a step of a called sync_to_sheets with the connection it holds: the first
\* step runs Database() (psycopg2.connect), which opens a connection unless
\* it is itself what fails; db.close() is the last statement of the try
\* block, and the except block re-raises without it
Connected(step) ==
    /\ pc = "idle" => connections < MaxConnections
    /\ RunCall(step)
    /\ connections' \in
          CASE pc = "idle" /\ pc' = "idle" -> {connections, connections + 1}
            [] pc = "idle" /\ pc' # "idle" -> {connections + 1}
            [] pc # "idle" /\ pc' = "idle" /\ outcome' = "ok" -> {connections - 1}
            [] OTHER -> {connections}
    /\ UNCHANGED <<other, frame>>

\* the interpreter may finalise a Database object no name refers to any more,
\* which closes its connection; the program does not ask for it
Collect ==
    /\ connections > (IF pc = "idle" THEN 0 ELSE 1)
    /\ connections' = connections - 1
    /\ UNCHANGED <<other, frame, sched_vars, call_vars, store, grid, rowCount, pc,
                   plan_vars, i, log, outcome, prev>>

NextConn ==
    \/ SchedCall
    \/ Connected(StartCycle)
    \/ Connected(ReadFails)
    \/ Connected(ClearDuplicates)
    \/ Connected(EnsureRows)
    \/ Connected(AppendRows)
    \/ Connected(UpdateExisting)
    \/ Connected(Close)
    \/ Collect
    \/ SchedTick
    \/ SchedWake

SpecConn == InitSched /\ [][NextConn]_vars

(***************************************************************************)
(* The write phase of plans longer than one chunk                          *)
(***************************************************************************)
MaxBulkClients == 34        \* clients with a row of their own in the sheet
MaxBulkDuplicates == 101    \* further rows that repeat the phone of client 1
MaxBulkCompared == 4        \* rows of the sheets whose plan steps 1..5 redo

\* the phone of client n, in canonical form
BulkPhone(n) ==
    <<"3", "8", "0", "5", "0", "0", "0", "0", "0">>
        \o <<DigitChars[((n \div 100) % 10) + 1],
             DigitChars[((n \div 10) % 10) + 1],
             DigitChars[(n % 10) + 1]>>

BulkClient(n) ==
    Client(<<"c">>, BulkPhone(n), None, <<>>, Day1, <<"passport">>)

BulkRow(n) == SheetRow(<<"c">>, BulkPhone(n), <<>>)

\* u clients with one row each, a clients without a row
BulkStore(u, a) == [n \in 1..(u + a) |-> BulkClient(n)]

\* the rows of clients 1..u, then d rows with the phone of client 1
BulkSheet(u, d) ==
    <<HeaderRow>> \o [n \in 1..u |-> BulkRow(n)] \o [n \in 1..d |-> BulkRow(1)]

\* the roster entry of every client of a bulk store
BulkEntry ==
    [full_name |-> <<"c">>, telegram_id |-> None, created_at |-> Day1,
     drive_folder_url |-> <<>>, doc_types |-> {"passport"}]

\* what steps 1..5 leave for BulkStore(u, a) and BulkSheet(u, d), u >= 1:
\* client n has row n + 1, the duplicates of client 1 are rows u + 2 onwards
BulkPlanned(u, d, a) ==
    /\ store = BulkStore(u, a)
    /\ grid = BulkSheet(u, d)
    /\ rowCount = Len(grid) + 1
    /\ existing_phones =
          [n \in 1..u |->
              [k |-> BulkPhone(n),
               v |-> IF n = 1 THEN <<2>> \o [m \in 1..d |-> u + 1 + m]
                     ELSE <<n + 1>>]]
    /\ normalized_existing =
          [n \in 1..(u + a) |->
              [k |-> BulkPhone(n),
               v |-> IF n <= u THEN n + 1 ELSE u + 1 + d + (n - u)]]
    /\ last_row = u + 1 + d
    /\ duplicate_clears = [m \in 1..d |-> ClearRequest(u + 1 + m)]
    /\ all_updates =
          [m \in 1..(3 * u) |->
              UpdateGroup(((m - 1) \div 3) + 2, BulkPhone(((m - 1) \div 3) + 1),
                          BulkEntry)[((m - 1) % 3) + 1]]
    /\ new_rows = [m \in 1..a |-> RowData(BulkPhone(u + m), BulkEntry)]
    /\ occupied0 = 1..Len(grid)
    /\ pc = Enter("clear", duplicate_clears, new_rows, all_updates)
    /\ i = 0
    /\ log = <<>>
    /\ outcome = "none"
    /\ prev = "none"

BulkUpdates == {1, 2, MaxBulkClients - 1, MaxBulkClients}
BulkDuplicates == {0, 1, chunk_size, MaxBulkDuplicates}
BulkAppends == {0, 1}

\* the cycle at step 6, its plan made
InitChunk ==
    /\ \E u \in BulkUpdates, d \in BulkDuplicates, a \in BulkAppends :
          BulkPlanned(u, d, a)
    /\ sched = "once"
    /\ elapsed = 0
    /\ active = 0
    /\ day = 1
    /\ connections = 0
    /\ other = None
    /\ frame = None
    /\ NoCall

\* steps 6..9 of one cycle
NextChunk ==
    \/ ClearDuplicates /\ Once
    \/ EnsureRows /\ Once
    \/ AppendRows /\ Once
    \/ UpdateExisting /\ Once
    \/ Close /\ Once

SpecChunk == InitChunk /\ [][NextChunk]_vars

(***************************************************************************)
(* Step 2 on stores that hold records without a usable phone               *)
(***************************************************************************)
MaxRosterClients == 3   \* client rows of the stores of the roster loader

\* clients of every kind of phone: three spellings of one phone with a null,
\* an empty and a set folder, another phone, and a null, an empty and a
\* digitless phone
RosterPool ==
    { Client(<<"A", "n", "n">>,
             <<"+", "3", "8", "0", "5", "0", "1", "2", "3", "4", "5", "6", "7">>,
             <<"7", "1">>, None, Day2, <<"passport", "ecp">>),
      Client(<<"A", "n", "n", "a">>,
             <<"0", "5", "0", " ", "1", "2", "3", "4", "5", "6", "7">>,
             None, <<"u", "1">>, Day1, <<"ecp", "story">>),
      Client(<<"A", "n", "y", "a">>, K1, None, <<>>, Day1, None),
      Client(<<"B", "o", "b">>,
             <<"0", "6", "7", "1", "1", "1", "2", "2", "3", "3">>,
             <<"7", "2">>, <<"u", "2">>, Day1, None),
      Client(<<"N", "i", "l">>, None, <<"7", "3">>, <<"u", "3">>, Day1,
             <<"workbook">>),
      Client(None, <<>>, <<"7", "4">>, <<"u", "4">>, Day2, <<"expenses">>),
      Client(<<"Z", "o", "e">>, <<"n", "/", "a", " ">>, <<"7", "5">>,
             <<"u", "5">>, Day2, <<"registration">>) }

RosterStores ==
    UNION {{st \in [1..n -> RosterPool] :
               \A a, b \in 1..n : a # b => st[a] # st[b]} : n \in 0..MaxRosterClients}

\* a sheet with one client row
RosterSheets == {<<HeaderRow, SheetRow(<<"A", "n", "n">>, K1, <<"u", "0">>)>>}

InitRoster ==
    /\ SyncInit(RosterStores, RosterSheets)
    /\ sched = "once"
    /\ elapsed = 0
    /\ active = 0
    /\ day = 1
    /\ connections = 0
    /\ other = None
    /\ frame = None
    /\ NoCall

NextRoster == StartCycle /\ Once

SpecRoster == InitRoster /\ [][NextRoster]_vars

(***************************************************************************)
(* Step 3 on sheets with rows of every shape                               *)
(***************************************************************************)
MaxSnapRows == 4        \* data rows of the sheets of the snapshot reader

\* a row with a date and a name and nothing behind them
ShortRow ==
    [c \in Cols |->
        CASE c = COLUMNS.date -> <<"0", "1", ".", "0", "1", ".", "2", "0", "2", "5">>
          [] c = COLUMNS.full_name -> <<"S", "a", "m">>
          [] OTHER -> Blank]

SnapRowPool ==
    { BlankRow,
      ShortRow,
      \* an empty phone cell between a name and a folder
      SheetRow(<<"M", "a", "x">>, Blank, <<"u", "8">>),
      SheetRow(<<"Z", "o", "e">>, <<"n", "/", "a">>, <<"u", "9">>),
      SheetRow(<<"A", "n", "n">>,
               <<" ", "0", "5", "0", "-", "1", "2", "3", "-", "4", "5", "-", "6", "7">>,
               Blank),
      SheetRow(<<"A", "n", "n">>, K1, <<"u", "0">>),
      SheetRow(<<"B", "o", "b">>, K2, Blank) }

\* a header whose phone cell holds a number
NumberedHeader == [HeaderRow EXCEPT ![COLUMNS.phone] = K2]

SnapSheets ==
    {<<h>> \o rows : h \in {HeaderRow, NumberedHeader},
                     rows \in [1..MaxSnapRows -> SnapRowPool]}

SnapStores == {<<c>> : c \in {cl \in ClientPool : cl.full_name = <<"B", "o", "b">>}}

InitSnap ==
    /\ SyncInit(SnapStores, SnapSheets)
    /\ sched = "once"
    /\ elapsed = 0
    /\ active = 0
    /\ day = 1
    /\ connections = 0
    /\ other = None
    /\ frame = None
    /\ NoCall

NextSnap == StartCycle /\ Once

SpecSnap == InitSnap /\ [][NextSnap]_vars

(***************************************************************************)
(* Cycles on sheets with every kind of first row                           *)
(***************************************************************************)
MaxHeaderRows == 2      \* data rows below the first row

\* no row at all, or a first row (the titles, titles with a number in the
\* phone cell, or nothing) and the rows below it
HeaderSheets ==
    {<<>>} \cup
    {<<h>> \o rows : h \in {HeaderRow, NumberedHeader, BlankRow},
                     rows \in UNION {[1..n -> RowPool] : n \in 0..MaxHeaderRows}}

InitHeader ==
    /\ SyncInit(SchedStores, HeaderSheets)
    /\ sched = "once"
    /\ elapsed = 0
    /\ active = 0
    /\ day = 1
    /\ connections = 0
    /\ other = None
    /\ frame = None
    /\ NoCall

NextHeader ==
    \/ StartCycle /\ Once
    \/ ReadFails /\ Once
    \/ ClearDuplicates /\ Once
    \/ EnsureRows /\ Once
    \/ AppendRows /\ Once
    \/ UpdateExisting /\ Once
    \/ Close /\ Once

SpecHeader == InitHeader /\ [][NextHeader]_vars

(***************************************************************************)
(* GoogleSheetsManager (google_sheets_manager.py): initial_sync and        *)
(* incremental_sync, each called on a database and a sheet.  A call is one *)
(* step: arg holds the clients and the sheet before the call, ret what the *)
(* call returned, the sheet after it and the write requests it sent.       *)
(***************************************************************************)
MaxGsmRows == 2         \* data rows of the sheet before the call
MaxGsmClients == 2      \* clients of the database

\* the list of document types of _prepare_client_row and incremental_sync,
\* in the order of the columns E..Q
DOCUMENT_COLUMNS ==
    <<"passport", "ecp", "ecpass", "registration", "workbook",
      "credit_contracts", "bank_statements", "expenses", "story",
      "family_income", "debt_certificates", "executive", "additional_docs">>

FIRST_DOCUMENT_COLUMN == 4
STATUS_COLUMN == 17
CLIENT_ID_COLUMN == 18
LAST_SYNC_COLUMN == 19

\* the twenty titles of A..T, each written by its column letter
HEADERS ==
    << <<"A">>, <<"B">>, <<"C">>, <<"D">>, <<"E">>, <<"F">>, <<"G">>, <<"H">>,
       <<"I">>, <<"J">>, <<"K">>, <<"L">>, <<"M">>, <<"N">>, <<"O">>, <<"P">>,
       <<"Q">>, <<"R">>, <<"S">>, <<"T">> >>

\* the check mark and the cross of a document cell
MARK_YES == <<"U+2705">>
MARK_NO == <<"U+274C">>

\* the two status texts
STATUS_COMPLETED == <<"d", "o", "n", "e">>
STATUS_IN_PROGRESS == <<"o", "p", "e", "n">>

\* the columns of the sheet the model tracks: A..T and U, beyond the range
GCols == 0..(LAST_SYNC_COLUMN + 1)
GBlankRow == [c \in GCols |-> Blank]

\* one row of values().get over A..T: trailing empty cells are left out
GRowValues(row) ==
    LET filled == {c \in 0..LAST_SYNC_COLUMN : row[c] # Blank}
        n == IF filled = {} THEN 0 ELSE (CHOOSE c \in filled : \A d \in filled : d <= c) + 1
    IN  [c \in 1..n |-> row[c - 1]]

\* the last row of the sheet with a value in A..T, 0 when there is none
GLastRow(g) ==
    LET filled == {r \in 1..Len(g) : GRowValues(g[r]) # <<>>} IN
    IF filled = {} THEN 0 ELSE CHOOSE r \in filled : \A q \in filled : q <= r

\* what the sheet shows for a value written USER_ENTERED
GEntered(v) == IF IsInt(v) THEN Decimal(v[2]) ELSE UserEntered(v)

\* the range writes of one values().batchUpdate, applied in order
GApplyWrites(g, ws) ==
    LET rows == {Len(g)} \cup {ws[n].range.r2 : n \in 1..Len(ws)}
        last == CHOOSE r \in rows : \A q \in rows : q <= r
    IN  [r \in 1..last |->
            [c \in GCols |->
                LET hits == {n \in 1..Len(ws) : InRange(ws[n], r, c)} IN
                IF hits = {}
                THEN IF r <= Len(g) THEN g[r][c] ELSE Blank
                ELSE LET w == ws[CHOOSE n \in hits : \A m \in hits : m <= n] IN
                     GEntered(w.values[r - w.range.r1 + 1][c - w.range.c1 + 1])]]

\* _get_all_rows: the values of A2:T; _safe_execute gives None when the read
\* raised, and `or []` makes that the empty list
get_all_rows(g, ok) ==
    IF ok THEN [r \in 1..(GLastRow(g) - 1) |-> GRowValues(g[r + 1])] ELSE <<>>

\* int(s) of a cell: the number, -1 when int raises ValueError
RECURSIVE DecimalValue(_, _)
DecimalValue(s, acc) ==
    IF s = <<>> THEN acc
    ELSE DecimalValue(Tail(s),
                      10 * acc + (CHOOSE d \in 0..9 : DigitChars[d + 1] = Head(s)))

IntOf(s) ==
    LET t == Strip(s) IN
    IF t # <<>> /\ \A k \in 1..Len(t) : t[k] \in Range(DigitChars)
    THEN DecimalValue(t, 0)
    ELSE 0 - 1

\* _get_existing_client_ids: client_id -> row_number, a later row of an id
\* replacing an earlier one
RECURSIVE ScanClientIds(_, _, _)
ScanClientIds(rows, idx, client_ids) ==
    IF idx >= Len(rows) THEN client_ids
    ELSE LET row == rows[idx + 1]
             row_number == idx + 2
         IN  IF Len(row) > CLIENT_ID_COLUMN /\ IntOf(row[CLIENT_ID_COLUMN + 1]) >= 0
             THEN ScanClientIds(rows, idx + 1,
                                DictSet(client_ids, IntOf(row[CLIENT_ID_COLUMN + 1]),
                                        row_number))
             ELSE ScanClientIds(rows, idx + 1, client_ids)

get_existing_client_ids(g, ok) == ScanClientIds(get_all_rows(g, ok), 0, <<>>)

\* _get_client_documents: for every document type whether the client has it;
\* all False when the query raised
get_client_documents(client, ok) ==
    [n \in 1..Len(DOCUMENT_COLUMNS) |->
        /\ ok
        /\ \/ DOCUMENT_COLUMNS[n] \in client.docs
           \/ DOCUMENT_COLUMNS[n] = "ecpass" /\ client.ecpass]

doc_values(documents) ==
    [n \in 1..Len(DOCUMENT_COLUMNS) |-> IF documents[n] THEN MARK_YES ELSE MARK_NO]

status_text(client) ==
    IF client.status = <<"c", "o", "m", "p", "l", "e", "t", "e", "d">>
    THEN STATUS_COMPLETED ELSE STATUS_IN_PROGRESS

\* datetime.now().isoformat()
NowIso == Today \o <<"T", "1", "0", ":", "0", "0">>

\* _prepare_client_row
prepare_client_row(client, documents, row_number) ==
    <<PyInt(row_number), client.full_name, client.phone, PyStr(client.telegram_id)>>
        \o doc_values(documents)
        \o <<status_text(client), PyInt(client.id), NowIso>>

\* a request as the result of a call keeps it
GRequest(kind, data, ok) == [kind |-> kind, data |-> data, ok |-> ok]

\* what a call leaves: the method, the value it returned, the sheet after
\* it, the requests it sent and which of its remote calls went through
GResult(method, value, g, requests, env) == <<method, value, g, requests, env>>
MethodOf(r) == r[1]
ValueOf(r) == r[2]
SheetOf(r) == r[3]
RequestsOf(r) == r[4]
EnvOf(r) == r[5]

\* _append_rows of the batches of a list from offset idx on: values().append
\* puts a batch below the last row that holds a value in A..T
RECURSIVE AppendBatches(_, _, _, _)
AppendBatches(acc, rows, idx, ok) ==
    IF idx >= Len(rows) THEN acc
    ELSE LET batch == Chunk(rows, idx)
             start == GLastRow(acc.sheet) + 1
             w == [range |-> Rng(0, start, LAST_SYNC_COLUMN, start + Len(batch) - 1),
                   values |-> batch]
         IN  AppendBatches(
                 [sheet |-> IF ok THEN GApplyWrites(acc.sheet, <<w>>) ELSE acc.sheet,
                  requests |-> Append(acc.requests, GRequest("append", <<w>>, ok))],
                 rows, idx + chunk_size, ok)

\* _batch_update_rows of the batches of a list of range writes
RECURSIVE UpdateBatches(_, _, _, _)
UpdateBatches(acc, updates, idx, ok) ==
    IF idx >= Len(updates) THEN acc
    ELSE LET batch == Chunk(updates, idx) IN
         UpdateBatches(
             [sheet |-> IF ok THEN GApplyWrites(acc.sheet, batch) ELSE acc.sheet,
              requests |-> Append(acc.requests, GRequest("update", batch, ok))],
             updates, idx + chunk_size, ok)

\* initial_sync; env tells which of its remote calls go through
initial_sync(clients, g, env) ==
    IF ~env.db THEN GResult("initial_sync", PyFalse, g, <<>>, env)
    ELSE IF clients = <<>> THEN GResult("initial_sync", PyTrue, g, <<>>, env)
    ELSE IF Len(get_all_rows(g, env.read)) > 0
    THEN GResult("initial_sync", PyFalse, g, <<>>, env)
    ELSE LET \* the values of A1:T1, nothing when the read raised or the row
             \* is empty
             first_row == IF env.first /\ GRowValues(g[1]) # <<>>
                          THEN <<GRowValues(g[1])>> ELSE <<>>
             header == [range |-> Rng(0, 1, LAST_SYNC_COLUMN, 1), values |-> <<HEADERS>>]
             headed ==
                 IF first_row = <<>> \/ Len(first_row[1]) < Len(HEADERS)
                 THEN [sheet |-> IF env.update THEN GApplyWrites(g, <<header>>) ELSE g,
                       requests |-> <<GRequest("update", <<header>>, env.update)>>]
                 ELSE [sheet |-> g, requests |-> <<>>]
             all_rows ==
                 [idx \in 1..Len(clients) |->
                     prepare_client_row(clients[idx],
                                        get_client_documents(clients[idx], env.docs),
                                        idx)]
             done == AppendBatches(headed, all_rows, 0, env.append)
         IN  GResult("initial_sync", PyTrue, done.sheet, done.requests, env)

\* the three range writes of a client that has a row
ClientUpdates(client, documents, row_number) ==
    << [range |-> Rng(FIRST_DOCUMENT_COLUMN, row_number,
                      STATUS_COLUMN - 1, row_number),
        values |-> <<doc_values(documents)>>],
       [range |-> Rng(STATUS_COLUMN, row_number, STATUS_COLUMN, row_number),
        values |-> << <<status_text(client)>> >>],
       [range |-> Rng(LAST_SYNC_COLUMN, row_number, LAST_SYNC_COLUMN, row_number),
        values |-> << <<NowIso>> >>] >>

\* the loop over db_clients: updates for the known ids, rows for the others
RECURSIVE SortClients(_, _, _, _)
SortClients(acc, existing_clients, clients, docs_ok) ==
    IF clients = <<>> THEN acc
    ELSE LET client == Head(clients)
             documents == get_client_documents(client, docs_ok)
         IN  SortClients(
                 IF DictHas(existing_clients, client.id)
                 THEN [acc EXCEPT !.updates =
                          @ \o ClientUpdates(client, documents,
                                             DictGet(existing_clients, client.id))]
                 ELSE [acc EXCEPT !.new_clients =
                          Append(@, prepare_client_row(
                                        client, documents,
                                        Len(existing_clients) + Len(acc.new_clients) + 2 - 1))],
                 existing_clients, Tail(clients), docs_ok)

\* incremental_sync; env tells which of its remote calls go through
incremental_sync(clients, g, env) ==
    LET existing_clients == get_existing_client_ids(g, env.read) IN
    IF ~env.db THEN GResult("incremental_sync", PyFalse, g, <<>>, env)
    ELSE IF clients = <<>> THEN GResult("incremental_sync", PyTrue, g, <<>>, env)
    ELSE LET sorted == SortClients([updates |-> <<>>, new_clients |-> <<>>],
                                   existing_clients, clients, env.docs)
             updated == UpdateBatches([sheet |-> g, requests |-> <<>>],
                                      sorted.updates, 0, env.update)
             done == AppendBatches(updated, sorted.new_clients, 0, env.append)
         IN  GResult("incremental_sync", PyTrue, done.sheet, done.requests, env)

\* the clients of the database and the rows of the sheet
GsmClient(id, name, phone, tg, status, docs, ecpass) ==
    [id |-> id, full_name |-> name, phone |-> phone, telegram_id |-> tg,
     status |-> status, docs |-> docs, ecpass |-> ecpass]

GsmClientPool ==
    { GsmClient(1, <<"A", "n", "n">>, K1, PyInt(71),
                <<"c", "o", "m", "p", "l", "e", "t", "e", "d">>,
                {"passport", "ecp"}, TRUE),
      GsmClient(2, <<"B", "o", "b">>, K2, None, <<"n", "e", "w">>, {}, FALSE),
      GsmClient(3, <<"E", "v", "e">>, K3, PyInt(73), <<"n", "e", "w">>,
                {"story"}, FALSE) }

\* SELECT * FROM docbot.clients ORDER BY id
GsmStores ==
    UNION {{st \in [1..n -> GsmClientPool] :
               \A a, b \in 1..n : a < b => st[a].id < st[b].id} : n \in 0..MaxGsmClients}

\* the row of a client as an earlier sync left it, with a remark of the
\* staff in U and the name corrected by hand
GsmRow(no, name, phone, id) ==
    [c \in GCols |->
        CASE c = 0 -> no
          [] c = 1 -> name
          [] c = 2 -> phone
          [] c \in FIRST_DOCUMENT_COLUMN..(STATUS_COLUMN - 1) -> MARK_NO
          [] c = STATUS_COLUMN -> STATUS_IN_PROGRESS
          [] c = CLIENT_ID_COLUMN -> id
          [] c = LAST_SYNC_COLUMN -> <<"2", "0", "2", "5">>
          [] c = LAST_SYNC_COLUMN + 1 -> <<"m", "e", "m", "o">>
          [] OTHER -> Blank]

GsmRowPool ==
    { GBlankRow,
      GsmRow(<<"1">>, <<"A", "n", "n", "a">>, K1, <<"1">>),
      GsmRow(<<"2">>, <<"B", "o", "b">>, K2, <<"2">>),
      \* a row typed by hand, without a client id
      [GBlankRow EXCEPT ![1] = <<"Z", "o", "e">>, ![2] = <<"n", "/", "a">>] }

GsmHeader == [c \in GCols |-> IF c <= LAST_SYNC_COLUMN THEN HEADERS[c + 1] ELSE Blank]

GsmSheets ==
    UNION {{<<h>> \o rows : h \in {GBlankRow, GsmHeader}, rows \in [1..n -> GsmRowPool]}
              : n \in 0..MaxGsmRows}

\* which remote calls of a call go through
GsmEnvs ==
    [db : BOOLEAN, read : BOOLEAN, first : BOOLEAN, docs : BOOLEAN,
     update : BOOLEAN, append : BOOLEAN]

InitGsm ==
    /\ SyncInit({<<>>}, {<<HeaderRow>>})
    /\ sched = "once"
    /\ elapsed = 0
    /\ active = 0
    /\ day = 1
    /\ connections = 0
    /\ other = None
    /\ frame = None
    /\ arg \in [clients : GsmStores, sheet : GsmSheets]
    /\ ret = Pending

gsm_frame == <<arg, sched_vars, extra_vars, store, grid, rowCount, pc, plan_vars,
               i, log, outcome, prev>>

CallInitialSync ==
    /\ ret = Pending
    /\ \E env \in GsmEnvs : ret' = initial_sync(arg.clients, arg.sheet, env)
    /\ UNCHANGED gsm_frame

CallIncrementalSync ==
    /\ ret = Pending
    /\ \E env \in GsmEnvs : ret' = incremental_sync(arg.clients, arg.sheet, env)
    /\ UNCHANGED gsm_frame

NextGsm ==
    \/ CallInitialSync
    \/ CallIncrementalSync

SpecGsm == InitGsm /\ [][NextGsm]_vars

(***************************************************************************)
(* Database.execute of the bot (telegram_bot.py)                           *)
(***************************************************************************)
max_retries == 3

\* the connection of the Database object: open, closed (conn.closed), or
\* open on the client's side with the server gone
ConnStates == {"open", "closed", "gone"}

\* the state of a call: the statement it is at, the loop variable, the
\* connection, the query attempts made, and the error that left the call
ExecFrame(pc_, attempt, conn, queries, error) ==
    [pc |-> pc_, attempt |-> attempt, conn |-> conn, queries |-> queries,
     error |-> error]

\* _connect: psycopg2.connect gives a connection or raises
ConnectOutcomes == {"open", "raised"}

\* the except clause of execute for OperationalError / InterfaceError:
\* _connect() and the next attempt, or raise on the last attempt; an
\* exception of _connect leaves execute from inside the except clause
OnConnectionError(f, conn) ==
    IF f.attempt < max_retries - 1
    THEN {[f EXCEPT !.pc = "ensure", !.attempt = @ + 1, !.conn = "open"],
          [f EXCEPT !.pc = "raised", !.conn = "closed", !.error = "connection"]}
    ELSE {[f EXCEPT !.pc = "raised", !.conn = conn, !.error = "connection"]}

InitExec ==
    /\ SyncInit({<<>>}, {<<HeaderRow>>})
    /\ sched = "once"
    /\ elapsed = 0
    /\ active = 0
    /\ day = 1
    /\ connections = 0
    /\ other = None
    /\ arg \in [fetch : BOOLEAN, rows : 0..2]
    /\ ret = Pending
    /\ \E conn \in ConnStates : frame = ExecFrame("ensure", 0, conn, 0, "none")

exec_frame == <<arg, sched_vars, connections, other, store, grid, rowCount, pc,
                plan_vars, i, log, outcome, prev>>

\* _ensure_connection at the head of an attempt
EnsureConnection ==
    /\ frame.pc = "ensure"
    /\ \/ \* the connection is closed: _connect(), and once more from the
          \* except clause when it raised
          /\ frame.conn = "closed"
          /\ \E first, second \in ConnectOutcomes :
                frame' \in
                   IF first = "open" \/ second = "open"
                   THEN {[frame EXCEPT !.pc = "query", !.conn = "open"]}
                   ELSE OnConnectionError(frame, "closed")
       \/ \* SELECT 1 goes through
          /\ frame.conn = "open"
          /\ frame' = [frame EXCEPT !.pc = "query"]
       \/ \* SELECT 1 raises a connection error: _connect()
          /\ frame.conn \in {"open", "gone"}
          /\ \E again \in ConnectOutcomes :
                frame' \in
                   IF again = "open"
                   THEN {[frame EXCEPT !.pc = "query", !.conn = "open"]}
                   ELSE OnConnectionError(frame, "closed")
       \/ \* SELECT 1 raises another error
          /\ frame.conn = "open"
          /\ frame' = [frame EXCEPT !.pc = "raised", !.error = "other"]
    /\ ret' = IF frame'.pc = "raised" THEN Raised ELSE ret
    /\ UNCHANGED exec_frame

\* cur.execute(query) and the fetch
RunQuery ==
    /\ frame.pc = "query"
    /\ \/ /\ frame' = [frame EXCEPT !.pc = "returned", !.queries = @ + 1]
          /\ ret' = IF arg.fetch THEN <<"rows", arg.rows>> ELSE PyInt(arg.rows)
       \/ /\ \E conn \in {"gone", "closed"} :
                frame' \in OnConnectionError([frame EXCEPT !.queries = @ + 1], conn)
          /\ ret' = IF frame'.pc = "raised" THEN Raised ELSE ret
       \/ /\ frame' = [frame EXCEPT !.pc = "raised", !.queries = @ + 1,
                                    !.error = "other"]
          /\ ret' = Raised
    /\ UNCHANGED exec_frame

NextExec ==
    \/ EnsureConnection
    \/ RunQuery

SpecExec == InitExec /\ [][NextExec]_vars

(***************************************************************************)
(* The daily reminder job of the bot (telegram_bot.py)                     *)
(***************************************************************************)
TicksPerDay == 4          \* clock ticks in a day
MaxReminderDays == 14     \* daily checks the model runs
MaxLag == 2               \* ticks between now_utc and the logged sent_at

\* timedelta.days of a span of ticks
DaysOf(ticks) == ticks \div TicksPerDay

\* get_last_reminder: ORDER BY sent_at DESC LIMIT 1
get_last_reminder(reminders) ==
    IF reminders = {} THEN -1
    ELSE CHOOSE t \in reminders : \A u \in reminders : u <= t

\* get_inactive_clients: in_progress clients inactive for 3 days or more
get_inactive_clients(now, last_activity) ==
    now - last_activity >= 3 * TicksPerDay

\* should_send of check_and_send_reminders
should_send(now, last_activity, sent_at) ==
    IF sent_at = -1
    THEN DaysOf(now - last_activity) >= 3
    ELSE IF DaysOf(now - last_activity) < 10
         THEN DaysOf(now - sent_at) >= 3
         ELSE DaysOf(now - sent_at) >= 1

\* the client stays inactive: last_activity is fixed, within the day before
\* the first check; the job runs at the same tick of every day
InitRemind ==
    /\ SyncInit({<<>>}, {<<HeaderRow>>})
    /\ sched = "once"
    /\ elapsed = 0
    /\ active = 0
    /\ day = 1
    /\ connections = 0
    /\ other = None
    /\ arg \in [telegram_id : BOOLEAN, last_activity : 0..(TicksPerDay - 1)]
    /\ ret = Pending
    /\ frame = [now |-> TicksPerDay, checks |-> 0, days_inactive |-> 0,
                reminders |-> {}, sent |-> {}]

\* one run of the job for the client: the reminder is logged with
\* CURRENT_TIMESTAMP after the message was sent, later than now_utc
check_and_send_reminders ==
    /\ frame.checks < MaxReminderDays
    /\ LET now == frame.now
           days_inactive == DaysOf(now - arg.last_activity)
           send == /\ get_inactive_clients(now, arg.last_activity)
                   /\ should_send(now, arg.last_activity,
                                  get_last_reminder(frame.reminders))
                   /\ arg.telegram_id
       IN \E lag \in 1..MaxLag :
             frame' = [now |-> now + TicksPerDay,
                       checks |-> frame.checks + 1,
                       days_inactive |-> days_inactive,
                       reminders |-> IF send THEN frame.reminders \cup {now + lag}
                                     ELSE frame.reminders,
                       sent |-> IF send THEN frame.sent \cup {days_inactive}
                                ELSE frame.sent]
    /\ UNCHANGED <<ret, exec_frame>>

NextRemind ==
    \/ check_and_send_reminders

SpecRemind == InitRemind /\ [][NextRemind]_vars

(***************************************************************************)
(* Two processes of sync_to_sheets.py on one database and one sheet: the   *)
(* scheduler and a run with --once.  Each runs one cycle; the variables of *)
(* the cycle are those of the process that is on, `other` keeps those of   *)
(* the process that waits.  Nothing orders their requests.                 *)
(***************************************************************************)
\* the variables a process of sync_to_sheets keeps to itself
Locals ==
    <<pc, existing_phones, normalized_existing, last_row, duplicate_clears,
      all_updates, new_rows, occupied0, i, log, outcome, prev>>

TwoStores == {<<c>> : c \in ClientPool}

InitTwo ==
    /\ SyncInit(TwoStores, Sheets)
    /\ sched = "once"
    /\ elapsed = 0
    /\ active = 0
    /\ day = 1
    /\ connections = 0
    /\ other = Locals
    /\ frame = None
    /\ NoCall

\* the next request comes from the other process
Switch ==
    /\ other' = Locals
    /\ pc' = other[1]
    /\ existing_phones' = other[2]
    /\ normalized_existing' = other[3]
    /\ last_row' = other[4]
    /\ duplicate_clears' = other[5]
    /\ all_updates' = other[6]
    /\ new_rows' = other[7]
    /\ occupied0' = other[8]
    /\ i' = other[9]
    /\ log' = other[10]
    /\ outcome' = other[11]
    /\ prev' = other[12]
    /\ UNCHANGED <<store, grid, rowCount, sched_vars, call_vars, connections,
                   frame>>

\* the one cycle of the process that is on
FirstCycle == outcome = "none" /\ Once

NextTwo ==
    \/ StartCycle /\ FirstCycle
    \/ ReadFails /\ FirstCycle
    \/ ClearDuplicates /\ Once
    \/ EnsureRows /\ Once
    \/ AppendRows /\ Once
    \/ UpdateExisting /\ Once
    \/ Close /\ Once
    \/ Switch

SpecTwo == InitTwo /\ [][NextTwo]_vars

(***************************************************************************)
(* What a cycle leaves in the sheet                                        *)
(***************************************************************************)
\* the key under which a snapshot files row r of the sheet, <<>> for none
RowKey(g, r) == RowPhoneKey(RowValues(g[r]))

KeyRows(g, key) == {r \in FIRST_DATA_ROW..Len(g) : RowKey(g, r) = key}

SheetKeys(g) == {RowKey(g, r) : r \in FIRST_DATA_ROW..Len(g)} \ {<<>>}

RosterKeys == Range(DictKeys(Roster(store)))

FlagCell(doc, doc_types) == IF doc \in doc_types THEN TRUE_CELL ELSE FALSE_CELL

\* row r shows the roster entry: phone in C, folder in E, flags in F..O
RowShows(g, r, key, data) ==
    /\ g[r][COLUMNS.phone] = key
    /\ g[r][COLUMNS.folder_created] = data.drive_folder_url
    /\ \A n \in 1..Len(DOC_TYPES) :
          g[r][COLUMNS[DOC_TYPES[n]]] = FlagCell(DOC_TYPES[n], data.doc_types)

\* every roster key has exactly one row, and the row shows the entry
SheetMirrorsRoster(g) ==
    LET roster == Roster(store) IN
    \A n \in 1..Len(roster) :
        /\ Cardinality(KeyRows(g, roster[n].k)) = 1
        /\ \A r \in KeyRows(g, roster[n].k) : RowShows(g, r, roster[n].k, roster[n].v)

Issued(kind) == {n \in 1..Len(log) : log[n].kind = kind}
Done(kind) == {n \in Issued(kind) : log[n].ok}

\* the rows a logged write request addresses
RowsOf(req) == UNION {req.data[m].r1..req.data[m].r2 : m \in 1..Len(req.data)}

WriteKinds == {"clear", "append", "update"}

\* a cycle is under way or has ended, and its plan is in the plan variables
Planned == pc # "idle" \/ log # <<>> \/ outcome = "ok"

\* the plan is made and nothing of it has been sent
Fresh == pc # "idle" /\ log = <<>>

ClearedRows == UNION {duplicate_clears[n].range.r1..duplicate_clears[n].range.r2 :
                         n \in 1..Len(duplicate_clears)}

UpdatedRows == UNION {all_updates[n].range.r1..all_updates[n].range.r2 :
                         n \in 1..Len(all_updates)}

MinOf(S) == CHOOSE r \in S : \A q \in S : r <= q

\* C1 as the specification states it: the plan of a cycle that follows a
\* completed cycle, the store and the sheet untouched in between, is empty:
\* no appends, no updates, no duplicate clears.
C1_SecondPlanEmpty ==
    (pc # "idle" /\ prev = "ok") =>
        /\ new_rows = <<>>
        /\ all_updates = <<>>
        /\ duplicate_clears = <<>>

\* C1 amended: the plan of a cycle that follows a completed cycle has no
\* appends and no duplicate clears; it holds one update group of three ranges
\* for every roster key, and these updates rewrite the cells with the values
\* the sheet already holds.
C1_SecondPlanRewrites ==
    (pc # "idle" /\ prev = "ok") =>
        /\ new_rows = <<>>
        /\ duplicate_clears = <<>>
        /\ Len(all_updates) = 3 * Len(Roster(store))
        /\ ApplyWrites(grid, all_updates) = grid

C1_Witness ==
    /\ pc # "idle" /\ prev = "ok"
    /\ Len(all_updates) >= 6

\* C2: after a cycle that completes without failure, whatever the sheet held
\* before, every roster key has exactly one row, and the row's phone, folder
\* and flag cells show the merged roster entry.
C2_CompleteCycleMirrors ==
    (pc = "idle" /\ outcome = "ok") => SheetMirrorsRoster(grid)

C2_Witness ==
    /\ pc = "idle" /\ outcome = "ok" /\ prev = "none"
    /\ Done("clear") # {} /\ Done("append") # {} /\ Done("update") # {}

\* C3: for every key the snapshot finds in two or more rows r1 < ... < rk the
\* plan clears exactly r2..rk, never r1, and the update of the key, if the
\* roster has it, goes to r1 and to no other row of the key.
C3_DuplicateHealing ==
    Fresh =>
        \A key \in SheetKeys(grid) :
            LET rows == KeyRows(grid, key)
                r1 == MinOf(rows)
            IN  Cardinality(rows) >= 2 =>
                /\ ClearedRows \cap rows = rows \ {r1}
                /\ Cardinality({n \in 1..Len(duplicate_clears) :
                                   duplicate_clears[n].range.r1 \in rows})
                       = Cardinality(rows) - 1
                /\ UpdatedRows \cap rows \subseteq {r1}
                /\ key \in RosterKeys =>
                       \E n \in 1..Len(all_updates) :
                           /\ all_updates[n].range = Rng(ColC, r1, ColC, r1)
                           /\ all_updates[n].values = << <<key>> >>

C3_Witness ==
    /\ Fresh
    /\ \E key \in SheetKeys(grid) :
          /\ Cardinality(KeyRows(grid, key)) >= 2
          /\ key \in RosterKeys

\* C4: no write of a cycle (duplicate clear, append, update) covers a column
\* outside the schema columns A..O.
C4_WritesInsideSchema ==
    \A n \in 1..Len(log) :
        log[n].kind \in WriteKinds =>
            \A m \in 1..Len(log[n].data) :
                ColA <= log[n].data[m].c1 /\ log[n].data[m].c2 <= ColO

\* C5: a cycle writes to no row that holds a key the roster does not have,
\* whether the key has one row or several.
C5_OrphansUntouched ==
    \A e \in 1..Len(existing_phones) :
        existing_phones[e].k \notin RosterKeys =>
            \A n \in 1..Len(log) :
                log[n].kind \in WriteKinds =>
                    RowsOf(log[n]) \cap Range(existing_phones[e].v) = {}

\* C6: the append write is issued only when the capacity of the sheet is at
\* least last_row + the number of appends, whatever ensure_rows met.
C6_AppendWithinCapacity ==
    \A n \in Issued("append") : log[n].data[1].r2 <= log[n].rowCount

\* C7: no row that held a non-empty cell when the snapshot was read lies in
\* the range of the append write.
C7_AppendSparesOccupied ==
    \A n \in Issued("append") : RowsOf(log[n]) \cap occupied0 = {}

WriteRank(kind) ==
    CASE kind = "clear" -> 1
      [] kind = "append" -> 2
      [] kind = "update" -> 3

\* C8: within a cycle every duplicate clear request comes before the append
\* write and the append write before every update request.
C8_WriteOrder ==
    \A a, b \in 1..Len(log) :
        (a < b /\ log[a].kind \in WriteKinds /\ log[b].kind \in WriteKinds) =>
            /\ WriteRank(log[a].kind) <= WriteRank(log[b].kind)
            /\ ~(log[a].kind = "append" /\ log[b].kind = "append")

C8_Witness ==
    Done("clear") # {} /\ Done("append") # {} /\ Done("update") # {}

\* C9: when a cycle completes after one or more cycles that aborted with any
\* prefix of their writes applied, every roster key has exactly one row, the
\* row shows the roster entry, and no duplicate of a roster key is left.
C9_SelfHealing ==
    (/\ pc = "idle" /\ outcome = "ok"
     /\ prev \in {"failed_unwritten", "failed_partway"}) =>
        /\ SheetMirrorsRoster(grid)
        /\ \A key \in RosterKeys : Cardinality(KeyRows(grid, key)) < 2

C9_Witness ==
    /\ pc = "idle" /\ outcome = "ok" /\ prev = "failed_partway"
    /\ Done("append") # {}
    /\ Done("update") # {}

\* the roster keys the snapshot does not have, in roster order
NewKeys ==
    LET IsNew(key) == ~DictHas(existing_phones, key) IN
    SelectSeq(DictKeys(Roster(store)), IsNew)

\* C10: with snapshot last row L the new roster phones p1..pn, in roster
\* order, are planned for and written to the rows L + 1..L + n, and the first
\* append of an empty sheet goes to row 2.
C10_AppendOrder ==
    Planned =>
        \A keys \in {NewKeys} :
        /\ Len(new_rows) = Len(keys)
        /\ \A n \in 1..Len(keys) :
              /\ new_rows[n][COLUMNS.phone + 1] = keys[n]
              /\ DictGet(normalized_existing, keys[n]) = last_row + n
        /\ \A a \in Issued("append") :
              /\ log[a].data[1].r1 = last_row + 1
              /\ log[a].data[1].r2 = last_row + Len(keys)
              /\ occupied0 \subseteq {1} => log[a].data[1].r1 = FIRST_DATA_ROW
        /\ \A a \in Done("append") :
              \A n \in 1..Len(keys) :
                  grid[last_row + n][COLUMNS.phone] = keys[n]

C10_Witness ==
    /\ Done("append") # {}
    /\ Len(NewKeys) >= 2
    /\ last_row > FIRST_DATA_ROW

(***************************************************************************)
(* Claims about the merge, the plan and the write phase                    *)
(***************************************************************************)
\* the keys under which the records of the store are filed
StoreKeys == {normalize_phone(store[n].phone) : n \in 1..Len(store)} \ {<<>>}

RecordsOf(key) == {n \in 1..Len(store) : normalize_phone(store[n].phone) = key}

\* the document types uploaded under a key, over all its records
DocsOf(key) == UNION {DocTypeSet(store[n].document_types) : n \in RecordsOf(key)}

FlagsOf(docs) == [d \in 1..Len(DOC_TYPES) |-> PyBool(DOC_TYPES[d] \in docs)]

AppendsOf(key) == {n \in 1..Len(new_rows) : new_rows[n][COLUMNS.phone + 1] = key}

\* the update groups of a key, each named by the place of its phone update
GroupsOf(key) ==
    {n \in 1..Len(all_updates) :
        /\ all_updates[n].range.c1 = ColC
        /\ all_updates[n].values[1][1] = key}

\* C11: records of the store that share one normalized phone make exactly one
\* roster entry, and the plan holds exactly one sink row for it, one appended
\* row or one update group, whose flags are the union of the document types
\* of all these records, whatever the order of the records.
C11_MergeBeforeDiff ==
    pc # "idle" =>
        \A roster \in {Roster(store)} : \A key \in StoreKeys :
        \A entries \in {{n \in 1..Len(roster) : roster[n].k = key}} :
        \A flags \in {FlagsOf(DocsOf(key))} :
            /\ Cardinality(entries) = 1
            /\ \A n \in entries : roster[n].v.doc_types = DocsOf(key)
            /\ Cardinality(AppendsOf(key)) + Cardinality(GroupsOf(key)) = 1
            /\ \A n \in AppendsOf(key) :
                  SubSeq(new_rows[n], ColF + 1, ColO + 1) = flags
            /\ \A n \in GroupsOf(key) :
                  /\ n + 2 <= Len(all_updates)
                  /\ all_updates[n + 2].range.r1 = all_updates[n].range.r1
                  /\ all_updates[n + 2].values[1] = flags

\* a plan made from two records of one phone whose document types overlap
\* without either set holding the other
C11_Witness ==
    /\ pc # "idle"
    /\ \E key \in StoreKeys : \E n, m \in RecordsOf(key) :
          /\ n < m
          /\ store[n].phone # store[m].phone
          /\ DocTypeSet(store[n].document_types)
                \cap DocTypeSet(store[m].document_types) # {}
          /\ DocTypeSet(store[n].document_types)
                \ DocTypeSet(store[m].document_types) # {}
          /\ DocTypeSet(store[m].document_types)
                \ DocTypeSet(store[n].document_types) # {}

\* C12: normalizing a normalized phone changes nothing, whatever the input:
\* None, the empty string, a phone without digits, and a phone of each of the
\* four branches.
C12_Idempotent == ret # Pending => normalize_phone(ret) = ret

\* a phone with separators that took the ten-digit branch
C12_Witness ==
    /\ ret # Pending
    /\ arg # None
    /\ Len(ret) = 13
    /\ Len(arg) > 10
    /\ ~StartsWith(SelectSeq(arg, IsDigit), <<"0">>)
    /\ ~StartsWith(SelectSeq(arg, IsDigit), <<"3", "8", "0">>)

DigitsOf(x) == IF x = None THEN <<>> ELSE SelectSeq(x, IsDigit)

\* the rule of the specification, on the digits d of the input
Rule(d) ==
    IF Len(d) >= 3 /\ d[1] = "3" /\ d[2] = "8" /\ d[3] = "0" THEN d
    ELSE IF Len(d) >= 1 /\ d[1] = "0" THEN <<"3", "8", "0">> \o Tail(d)
    ELSE IF Len(d) = 10 THEN <<"3", "8", "0">> \o d
    ELSE d

\* C13: normalize_phone returns what the rule gives on the digits of its
\* input: the digits if they start with 380, else 380 and the digits without
\* their leading 0, else 380 and the digits if there are ten, else the
\* digits; 0501234567 and +380501234567 give 380501234567, and 1234567890
\* gives 3801234567890.
C13_FollowsRule ==
    ret # Pending =>
        /\ ret = Rule(DigitsOf(arg))
        /\ arg = <<"0", "5", "0", "1", "2", "3", "4", "5", "6", "7">> => ret = K1
        /\ arg = <<"+", "3", "8", "0", "5", "0", "1", "2", "3", "4", "5", "6", "7">>
              => ret = K1
        /\ arg = <<"1", "2", "3", "4", "5", "6", "7", "8", "9", "0">> => ret = K3

\* a local number whose trunk digit gave way to the country code
C13_Witness ==
    /\ ret # Pending
    /\ StartsWith(DigitsOf(arg), <<"0">>)
    /\ Len(DigitsOf(arg)) = 10
    /\ Len(ret) = 12

Failed == outcome \in {"failed_unwritten", "failed_partway"}

\* C14: the error of a cycle never ends the scheduler; after every cycle,
\* failed or not, the scheduler sleeps one full SYNC_INTERVAL before it calls
\* the next, so a failed cycle is never retried at once; and after every
\* cycle a next one starts in the end.
C14_SchedulerKeepsGoing ==
    /\ [](sched \in {"call", "blocked", "sleep"})
    /\ []((sched \in {"call", "blocked"} /\ outcome # "none")
            => elapsed >= SYNC_INTERVAL)
    /\ [][active' < active => (sched' = "sleep" /\ elapsed' = 0)]_vars
    /\ (sched = "sleep") ~> (sched = "blocked")

\* a cycle under way that follows a failed one and a full sleep
C14_Witness ==
    /\ sched = "blocked"
    /\ pc # "idle"
    /\ Failed
    /\ elapsed >= SYNC_INTERVAL

\* C19: the cycles of run_scheduler follow one another: never are two calls
\* of sync_to_sheets of one scheduler under way, and none is under way while
\* the scheduler sleeps or is about to call.
C19_SingleRunner ==
    /\ active <= 1
    /\ pc # "idle" => active = 1
    /\ sched \in {"call", "sleep"} => active = 0 /\ pc = "idle"

\* a second cycle under way
C19_Witness == active = 1 /\ pc # "idle" /\ outcome # "none"

\* C15: when a remote call of the write phase fails (a clear chunk, the grow
\* request, the append, an update chunk), the failure leaves sync_to_sheets
\* and no later write of the cycle is issued: a failed request is the last
\* request of its cycle, and the cycle has ended in failure.
C15_FailuresPropagate ==
    \A n \in 1..Len(log) :
        ~log[n].ok => n = Len(log) /\ pc = "idle" /\ Failed

\* the ranges of the requests of a kind, in the order the requests were issued
RECURSIVE Sent(_, _)
Sent(l, kind) ==
    IF l = <<>> THEN <<>>
    ELSE (IF l[1].kind = kind THEN l[1].data ELSE <<>>) \o Sent(Tail(l), kind)

PlannedRanges(kind) ==
    RangesOf(IF kind = "clear" THEN duplicate_clears ELSE all_updates)

\* the loop of a kind has run to its end in the cycle the log belongs to
LoopDone(kind) ==
    \/ pc = "close"
    \/ pc = "idle" /\ outcome = "ok"
    \/ kind = "clear" /\ pc \in {"ensure", "append", "update"}

\* the plan a write phase starts from is the plan steps 1..5 make of the store
\* and the sheet, redone where the sheet is small
BulkPlanAgrees ==
    (log = <<>> /\ Len(grid) <= MaxBulkCompared) =>
        LET existing == get_existing_phones(grid)
            p == Plan(Roster(store), existing)
        IN  /\ existing_phones = existing
            /\ normalized_existing = p.normalized_existing
            /\ last_row = LastRow(existing)
            /\ duplicate_clears = DuplicateClears(existing)
            /\ all_updates = p.all_updates
            /\ new_rows = p.new_rows
            /\ occupied0 = Occupied(grid)

\* C17: every batch request of clears or of updates carries between 1 and 100
\* ranges, and the ranges of the requests of a kind, put end to end in the
\* order of issue, are the planned list: its beginning while the loop runs or
\* after a failure, the whole list once the loop is done.
C17_Chunking ==
    /\ BulkPlanAgrees
    /\ \A kind \in {"clear", "update"} :
        /\ \A n \in Issued(kind) :
              Len(log[n].data) >= 1 /\ Len(log[n].data) <= 100
        /\ Len(Sent(log, kind)) <= Len(PlannedRanges(kind))
        /\ Sent(log, kind)
              = SubSeq(PlannedRanges(kind), 1, Len(Sent(log, kind)))
        /\ LoopDone(kind) => Sent(log, kind) = PlannedRanges(kind)

\* both loops done with more than one request each
C17_Witness ==
    /\ pc = "close"
    /\ Cardinality(Issued("clear")) >= 2
    /\ Cardinality(Issued("update")) >= 2
    /\ \E n \in Issued("update") : Len(log[n].data) = 100
    /\ \E n \in Issued("update") : Len(log[n].data) < 100

\* the requests of the log that carry planned mutations
Writes == {n \in 1..Len(log) : log[n].kind \in WriteKinds}

\* the range writes of the plan
PlannedWrites ==
    Range(duplicate_clears) \cup Range(all_updates)
        \cup (IF new_rows = <<>> THEN {} ELSE {AppendRequest(last_row, new_rows)})

\* the sheet shows what the write w puts there
Shows(w) ==
    \A r \in w.range.r1..w.range.r2 : \A c \in Cols \cap (w.range.c1..w.range.c2) :
        /\ r <= Len(grid)
        /\ grid[r][c] = UserEntered(w.values[r - w.range.r1 + 1][c - w.range.c1 + 1])

\* C16: within a cycle no planned mutation is sent twice; a batch or append
\* request that fails is the last request of the cycle, so none of the
\* remaining ones is sent and the failed one is not sent again; and what the
\* earlier successful requests wrote stays in the sheet.
C16_NoRetryNoRollback ==
    /\ \A n \in Writes :
          ~log[n].ok => n = Len(log) /\ pc = "idle" /\ Failed
    /\ \A n, m \in Writes :
          \A p \in 1..Len(log[n].data) : \A q \in 1..Len(log[m].data) :
              log[n].data[p] = log[m].data[q] => n = m /\ p = q
    /\ \A n \in Writes :
          log[n].ok =>
              \A w \in PlannedWrites :
                  w.range \in Range(log[n].data) => Shows(w)

\* a cycle that failed at its second chunk of updates, after clears in two
\* chunks and the append
C16_Witness ==
    /\ pc = "idle"
    /\ outcome = "failed_partway"
    /\ log # <<>>
    /\ log[Len(log)].kind = "update"
    /\ ~log[Len(log)].ok
    /\ Cardinality(Done("clear")) = 2
    /\ Cardinality(Done("append")) = 1
    /\ Cardinality(Done("update")) = 1

\* C18: every appended row has exactly 15 fields in the order date, name,
\* phone, contact handle, folder, then one boolean for each entry of DOC_TYPES
\* in the order of DOC_TYPES; the F..O payload of every update has exactly 10
\* booleans in that order; a flag stands at the place of its document type
\* whatever types the client has, and a client without uploads gets ten
\* false flags.
C18_SchemaColumns ==
    pc # "idle" =>
        \A roster \in {Roster(store)} :
        /\ \A n \in 1..Len(new_rows) :
              \A row \in {new_rows[n]} : \A key \in {new_rows[n][COLUMNS.phone + 1]} :
              /\ Len(row) = 15
              /\ DictHas(roster, key)
              /\ \A data \in {DictGet(roster, key)} : \A docs \in {DocsOf(key)} :
                    /\ Len(row[COLUMNS.date + 1]) = 10
                    /\ data.created_at # None
                          => row[COLUMNS.date + 1] = StrfDate(data.created_at)
                    /\ row[COLUMNS.full_name + 1] = data.full_name
                    /\ row[COLUMNS.telegram + 1] = TelegramLink(data.telegram_id)
                    /\ row[COLUMNS.folder_created + 1] = data.drive_folder_url
                    /\ \A d \in 1..Len(DOC_TYPES) :
                          /\ COLUMNS[DOC_TYPES[d]] = ColF + d - 1
                          /\ row[COLUMNS[DOC_TYPES[d]] + 1]
                                = PyBool(DOC_TYPES[d] \in docs)
        /\ \A n \in 1..Len(all_updates) :
              all_updates[n].range.c1 = ColF =>
                  \A flags \in {all_updates[n].values[1]} :
                  \A key \in {all_updates[n - 2].values[1][1]} :
                  /\ all_updates[n].range.c2 = ColO
                  /\ Len(all_updates[n].values) = 1
                  /\ Len(flags) = 10
                  /\ DictHas(roster, key)
                  /\ all_updates[n - 2].range.r1 = all_updates[n].range.r1
                  /\ \A docs \in {DocsOf(key)} :
                        /\ \A d \in 1..Len(DOC_TYPES) :
                              flags[d] = PyBool(DOC_TYPES[d] \in docs)
                        /\ docs = {} => flags = [d \in 1..10 |-> PyFalse]

\* a plan with the row of a new client without uploads and the update of a
\* known client with uploads
C18_Witness ==
    /\ pc # "idle"
    /\ \E n \in 1..Len(new_rows) :
          /\ DocsOf(new_rows[n][COLUMNS.phone + 1]) = {}
          /\ SubSeq(new_rows[n], ColF + 1, ColO + 1) = [d \in 1..10 |-> PyFalse]
    /\ \E n \in 1..Len(all_updates) :
          /\ all_updates[n].range.c1 = ColF
          /\ PyTrue \in Range(all_updates[n].values[1])
          /\ PyFalse \in Range(all_updates[n].values[1])

\* the rows the append write addresses
AppendedRows == (last_row + 1)..(last_row + Len(new_rows))

\* C20: the three lists of a plan are disjoint: no row of the sheet is the
\* target of more than one of appends, updates and clears, and every roster
\* key has either exactly one appended row or exactly one update group, on
\* one row, never both and never more; the lists hold nothing else.
C20_ListsDisjoint ==
    pc # "idle" =>
        \A keys \in {RosterKeys} : \A cleared \in {ClearedRows} :
        \A updated \in {UpdatedRows} :
        \A grouped \in {{key \in keys : GroupsOf(key) # {}}} :
        /\ cleared \cap updated = {}
        /\ cleared \cap AppendedRows = {}
        /\ updated \cap AppendedRows = {}
        /\ \A key \in keys :
              \/ /\ key \notin grouped
                 /\ Cardinality(AppendsOf(key)) = 1
              \/ /\ AppendsOf(key) = {}
                 /\ Cardinality(GroupsOf(key)) = 1
                 /\ \A n \in GroupsOf(key) :
                       /\ n + 2 <= Len(all_updates)
                       /\ \A m \in n..(n + 2) :
                             /\ all_updates[m].range.r1 = all_updates[n].range.r1
                             /\ all_updates[m].range.r2 = all_updates[n].range.r1
        /\ \A n \in 1..Len(new_rows) : new_rows[n][COLUMNS.phone + 1] \in keys
        /\ Len(all_updates) = 3 * Cardinality(grouped)
        /\ Cardinality(updated) = Cardinality(grouped)

\* a plan with clears, updates and appended rows
C20_Witness ==
    /\ pc # "idle"
    /\ duplicate_clears # <<>>
    /\ all_updates # <<>>
    /\ new_rows # <<>>

(***************************************************************************)
(* Claims about the frame of the writes, the readers and the cycle's state *)
(***************************************************************************)
\* the columns an update group addresses: C, E and F..O
UpdateCols == {ColC, ColE} \cup (ColF..ColO)

\* the roster keys that have a row in the snapshot, each with its first row
KnownKeys == {key \in RosterKeys : DictHas(existing_phones, key)}

RowOfKey(key) == CanonicalRow(DictGet(existing_phones, key))

\* the step sends a chunk of updates and the request succeeds
UpdateApplied ==
    /\ pc = "update"
    /\ Len(log') = Len(log) + 1
    /\ log'[Len(log')].kind = "update"
    /\ log'[Len(log')].ok

Without(st, n) == SubSeq(st, 1, n - 1) \o SubSeq(st, n + 1, Len(st))

\* the record has no phone, an empty phone or a phone without a digit
Unkeyable(client) ==
    \/ client.phone = None
    \/ \A k \in 1..Len(client.phone) : ~IsDigit(client.phone[k])

\* C22: step 2 skips exactly the records that cannot be keyed: a record with
\* a null or empty phone or a phone without a digit adds nothing to the
\* roster or to the plan, the loader returns a roster for every store that
\* holds such records and the cycle does not end in failure over them, and
\* every other record is in the roster under the key normalize_phone gives
\* its phone, which is not empty.
C22_SkipsUnkeyable ==
    \A roster \in {Roster(store)} :
        /\ \A n \in 1..Len(store) :
              IF Unkeyable(store[n])
              THEN /\ Roster(Without(store, n)) = roster
                   /\ \A e \in 1..Len(roster) :
                         /\ roster[e].k # <<>>
                         /\ RecordsOf(roster[e].k) # {n}
              ELSE /\ normalize_phone(store[n].phone) # <<>>
                   /\ DictHas(roster, normalize_phone(store[n].phone))
                   /\ DocTypeSet(store[n].document_types) \subseteq
                         DictGet(roster, normalize_phone(store[n].phone)).doc_types
        /\ Len(roster) = Cardinality(StoreKeys)
        /\ ~Failed
        /\ pc # "idle" => Len(new_rows) + Cardinality(UpdatedRows) = Len(roster)

\* a plan made from a store with a record without a phone, a record whose
\* phone has no digit and a record that is keyed
C22_Witness ==
    /\ pc # "idle"
    /\ \E a, b, c \in 1..Len(store) :
          /\ store[a].phone = None
          /\ store[b].phone # None /\ store[b].phone # <<>> /\ Unkeyable(store[b])
          /\ ~Unkeyable(store[c])
    /\ Len(Roster(store)) = 1

\* the key of the phone cell of row r of the sheet, <<>> when it has no digit
CellKey(g, r) == normalize_phone(g[r][COLUMNS.phone])

\* C23: the snapshot maps each key to the strictly ascending list of exactly
\* the rows from row 2 on whose phone cell normalizes to the key; the header,
\* an empty row, a row of fewer than three cells and a row whose phone cell
\* is blank or has no digit stand under no key, and the reader returns a
\* snapshot for every such sheet without the cycle failing.
C23_SnapshotIndex ==
    /\ ~Failed
    /\ pc # "idle" =>
        /\ \A e \in 1..Len(existing_phones) :
              \A key \in {existing_phones[e].k} : \A rows \in {existing_phones[e].v} :
              /\ key # <<>>
              /\ rows # <<>>
              /\ \A a, b \in 1..Len(rows) : a < b => rows[a] < rows[b]
              /\ Range(rows) = {r \in 2..Len(grid) : CellKey(grid, r) = key}
              /\ \A f \in 1..Len(existing_phones) :
                    existing_phones[f].k = key => f = e
        /\ \A r \in 2..Len(grid) :
              IF CellKey(grid, r) = <<>>
              THEN \A e \in 1..Len(existing_phones) : r \notin Range(existing_phones[e].v)
              ELSE DictHas(existing_phones, CellKey(grid, r))
        /\ \A e \in 1..Len(existing_phones) : 1 \notin Range(existing_phones[e].v)

\* a snapshot of a sheet with a number in the header, a phone in rows 2 and 5
\* in two spellings, and between them a short row and a row without digits
C23_Witness ==
    /\ pc # "idle"
    /\ grid[1][COLUMNS.phone] = K2
    /\ Len(grid) = 5
    /\ grid[2][COLUMNS.phone] # K1
    /\ grid[5][COLUMNS.phone] = K1
    /\ DictHas(existing_phones, K1)
    /\ DictGet(existing_phones, K1) = <<2, 5>>
    /\ ShortRow \in {grid[3], grid[4]}
    /\ \E r \in 3..4 : grid[r][COLUMNS.phone] = <<"n", "/", "a">>

\* the phone updates of the plan: the writes to a C cell
PhoneUpdates == {n \in 1..Len(all_updates) : all_updates[n].range.c1 = ColC}

\* C24: the phone of every appended row and of every update of a C cell is
\* the key of a roster entry, normalize_phone leaves it as it is, and once
\* the write is applied the reader files the row under that key.
C24_CanonicalWriteBack ==
    Planned =>
        \A keys \in {RosterKeys} :
        /\ \A n \in 1..Len(new_rows) : \A phone \in {new_rows[n][COLUMNS.phone + 1]} :
              /\ phone \in keys
              /\ normalize_phone(phone) = phone
              /\ Done("append") # {} => RowKey(grid, last_row + n) = phone
        /\ \A n \in PhoneUpdates : \A phone \in {all_updates[n].values[1][1]} :
              /\ phone \in keys
              /\ normalize_phone(phone) = phone
              /\ all_updates[n].values = << <<phone>> >>
              /\ (\E m \in Done("update") : all_updates[n].range \in Range(log[m].data))
                    => /\ RowKey(grid, all_updates[n].range.r1) = phone
                       /\ grid[all_updates[n].range.r1][COLUMNS.phone] = phone

\* a finished first cycle that appended a client whose phone the store holds
\* in local format and updated the phone cell of a row the sheet had
C24_Witness ==
    /\ pc = "idle" /\ outcome = "ok"
    /\ Done("append") # {}
    /\ Done("update") # {}
    /\ \E n \in 1..Len(new_rows) : \E c \in 1..Len(store) :
          /\ normalize_phone(store[c].phone) = new_rows[n][COLUMNS.phone + 1]
          /\ store[c].phone # new_rows[n][COLUMNS.phone + 1]
          /\ grid[last_row + n][COLUMNS.phone] = new_rows[n][COLUMNS.phone + 1]
    /\ \E n \in PhoneUpdates :
          /\ all_updates[n].range.r1 \in occupied0
          /\ prev = "none"
          /\ grid[all_updates[n].range.r1][COLUMNS.phone] = all_updates[n].values[1][1]

\* the folders of the records of a key that have one
FoldersOf(key) ==
    {store[n].drive_folder_url :
        n \in {m \in RecordsOf(key) : Truthy(store[m].drive_folder_url)}}

\* the folder the plan writes for a key: the E update or the fifth field of
\* the appended row
PlannedFolders(key) ==
    {all_updates[n + 1].values[1][1] : n \in GroupsOf(key)}
        \cup {new_rows[n][COLUMNS.folder_created + 1] : n \in AppendsOf(key)}

\* C25: the folder of a merged roster entry is one of the non-empty folders
\* of the records of its phone when any of them has one, whatever the order
\* of the records, and the empty string only when none has; the plan writes
\* that folder.
C25_FolderPreference ==
    pc # "idle" =>
        \A roster \in {Roster(store)} : \A e \in 1..Len(roster) :
        \A folders \in {FoldersOf(roster[e].k)} :
        \A folder \in {roster[e].v.drive_folder_url} :
            /\ folders # {} => folder \in folders
            /\ folders = {} => folder = <<>>
            /\ Truthy(folder) <=> folders # {}
            /\ PlannedFolders(roster[e].k) = {folder}

\* a plan for a phone of three records: the first with a null folder, the
\* second with an empty one, the third with a folder
C25_Witness ==
    /\ pc # "idle"
    /\ Len(store) = 3
    /\ Cardinality(StoreKeys) = 1
    /\ store[1].drive_folder_url = None
    /\ store[2].drive_folder_url = <<>>
    /\ Truthy(store[3].drive_folder_url)
    /\ Roster(store)[1].v.drive_folder_url = store[3].drive_folder_url

\* step 8 of the cycle the log belongs to is behind
AppendStepDone == pc \in {"update", "close"} \/ (pc = "idle" /\ outcome = "ok")

\* C26: a cycle sends its appends in one request: never more than one append
\* request in a cycle, none when the plan has no appends, exactly one once
\* step 8 of a plan with n >= 1 appends is done; the request is the single
\* range A..O of the rows last_row + 1 .. last_row + n, and it puts the n
\* payloads on these rows, one each, in order.
C26_SingleAppendWrite ==
    Planned =>
        \A n \in {Len(new_rows)} : \A sent \in {Issued("append")} :
        /\ Cardinality(sent) <= 1
        /\ n = 0 => sent = {}
        /\ (n >= 1 /\ AppendStepDone) => Cardinality(Done("append")) = 1
        /\ \A a \in sent :
              /\ n >= 1
              /\ log[a].data = <<Rng(ColA, last_row + 1, ColO, last_row + n)>>
              /\ Len(AppendRequest(last_row, new_rows).values) = n
              /\ AppendRequest(last_row, new_rows).range = log[a].data[1]
              /\ log[a].ok =>
                    \A k \in 1..n : \A c \in ColA..ColO :
                        grid[last_row + k][c] = UserEntered(new_rows[k][c + 1])

\* a finished cycle that cleared a duplicate and then appended two rows in
\* its one append request
C26_Witness ==
    /\ pc = "idle" /\ outcome = "ok"
    /\ Len(new_rows) = 2
    /\ Cardinality(Done("append")) = 1
    /\ Done("clear") # {}
    /\ grid[last_row + 1][COLUMNS.phone] # grid[last_row + 2][COLUMNS.phone]

\* the characters of str(x) that are digits, none for a falsy x
DigitsIn(x) == IF Truthy(x) THEN SelectSeq(PyStr(x), IsDigit) ELSE <<>>

\* C27: every call of normalize_phone returns, and returns a string of
\* digits, never an exception, for None, the empty string, strings with and
\* without digits, ints and booleans; a falsy input and an input without
\* digits give the empty string.
C27_Total ==
    /\ [](ret # Pending =>
            /\ ret # Raised
            /\ ret # None
            /\ \A k \in 1..Len(ret) : IsDigit(ret[k])
            /\ DigitsIn(arg) = <<>> => ret = <<>>
            /\ ret = <<>> => DigitsIn(arg) = <<>>)
    /\ (ret = Pending) ~> (ret # Pending)

\* the call returned the key of a ten-digit int
C27_Witness ==
    /\ ret # Pending
    /\ arg = PyInt(1234567890)
    /\ ret = K3

\* the plan the cycle holds
HeldPlan ==
    <<existing_phones, normalized_existing, last_row, duplicate_clears,
      all_updates, new_rows>>

\* the rows with the date of every record without created_at set to d
Redate(rows, d) ==
    [n \in 1..Len(rows) |->
        IF DictGet(Roster(store), rows[n][COLUMNS.phone + 1]).created_at = None
        THEN [rows[n] EXCEPT ![COLUMNS.date + 1] = StrfDate(d)]
        ELSE rows[n]]

\* the plan steps 2..5 make of the store and the sheet as they are, the rows
\* of records without created_at dated d
PlanOfContents(d) ==
    LET existing == get_existing_phones(grid)
        p == Plan(Roster(store), existing)
    IN  <<existing, p.normalized_existing, LastRow(existing),
          DuplicateClears(existing), p.all_updates, Redate(p.new_rows, d)>>

\* C28 as the specification states it: the plan of a cycle is a function of
\* the store and the sheet it read and of nothing else, so it is the plan the
\* first cycle of the process makes of the same store and sheet.
C28_PlanFromContents == Fresh => HeldPlan = PlanOfContents(DateOf(1))

\* C28 amended: the plan of a cycle is a function of the store and the sheet
\* it read and, for the appended row of a record without created_at, of the
\* date of the run; nothing of earlier cycles, finished or failed, enters it.
C28_PlanFromContentsAndDate == Fresh => HeldPlan = PlanOfContents(DateOf(day))

\* the plan of a cycle on the second day, after a cycle that failed with part
\* of its writes applied, with a row to append for a record without
\* created_at
C28_Witness ==
    /\ Fresh
    /\ prev = "failed_partway"
    /\ day = 2
    /\ new_rows # <<>>
    /\ store[1].created_at = None

(***************************************************************************)
(* Claims about GoogleSheetsManager                                        *)
(***************************************************************************)
\* the cells incremental_sync declares for a client that has a row: the
\* document marks E..Q, the status R and last_sync T
DeclaredCols == (FIRST_DOCUMENT_COLUMN..STATUS_COLUMN) \cup {LAST_SYNC_COLUMN}

\* the rows that hold a value
ExistingRows(g) == {r \in 1..Len(g) : g[r] # GBlankRow}

\* the rows below the header whose S cell holds the id
RowsOfId(g, id) == {r \in 2..Len(g) : IntOf(g[r][CLIENT_ID_COLUMN]) = id}

\* the range writes of the requests of the call, each with its kind
SentWrites ==
    UNION {{[kind |-> q.kind, range |-> w.range, values |-> w.values] :
               w \in Range(q.data)} : q \in Range(RequestsOf(ret))}

\* the ranges the call wrote for the client: those of its updates that lie
\* in a row of the client's id, and those of the appends with a row that
\* bears the id
WrittenFor(id) ==
    {w.range : w \in {x \in SentWrites :
        \/ x.kind = "update" /\ x.range.r1 \in RowsOfId(arg.sheet, id)
        \/ x.kind = "append"
           /\ \E n \in 1..Len(x.values) :
                 x.values[n][CLIENT_ID_COLUMN + 1] = PyInt(id)}}

\* C29: incremental_sync touches only the declared cells of existing clients.
\* For a client whose id is in the sheet before the call, everything the call
\* writes for the client lies in E..Q, R and T of a row of that id; the cells
\* A..D and S of that row are as before; and every cell of an existing row
\* (a row that held a value before the call) that differs after the call is
\* a declared cell of the row of a client of the database.
C29_TouchesDeclaredCells ==
    (ret # Pending /\ MethodOf(ret) = "incremental_sync") =>
        /\ \A k \in 1..Len(arg.clients) :
              LET id == arg.clients[k].id IN
              RowsOfId(arg.sheet, id) # {} =>
                  /\ \A rg \in WrittenFor(id) :
                        /\ rg.r1 = rg.r2
                        /\ rg.r1 \in RowsOfId(arg.sheet, id)
                        /\ (rg.c1..rg.c2) \subseteq DeclaredCols
                  /\ \A r \in RowsOfId(arg.sheet, id) :
                        \A c \in GCols \ DeclaredCols :
                            SheetOf(ret)[r][c] = arg.sheet[r][c]
        /\ \A r \in ExistingRows(arg.sheet) : \A c \in GCols :
              SheetOf(ret)[r][c] # arg.sheet[r][c] =>
                  /\ c \in DeclaredCols
                  /\ \E k \in 1..Len(arg.clients) :
                        r \in RowsOfId(arg.sheet, arg.clients[k].id)

\* the sheet holds a data row below the header
HasDataRow(g) == \E r \in 2..Len(g) : GRowValues(g[r]) # <<>>

\* C30: whenever the sheet holds at least one data row below the header,
\* initial_sync appends no client rows and returns False, whichever of its
\* remote calls fail, the read of the existing rows included.
C30_InitialSyncRefuses ==
    (ret # Pending /\ MethodOf(ret) = "initial_sync" /\ HasDataRow(arg.sheet)) =>
        /\ ValueOf(ret) = PyFalse
        /\ \A n \in 1..Len(RequestsOf(ret)) : RequestsOf(ret)[n].kind # "append"
        /\ SheetOf(ret) = arg.sheet

\* the client ids in the S column of the rows below the header
IdsInSheet(g) ==
    {IntOf(g[r][CLIENT_ID_COLUMN]) : r \in 2..Len(g)} \ {0 - 1}

\* the client ids of the rows the call asked to append
AppendedIds ==
    UNION {{w.values[n][CLIENT_ID_COLUMN + 1][2] : n \in 1..Len(w.values)} :
              w \in {x \in SentWrites : x.kind = "append"}}

\* C33: incremental_sync never appends a row for a client id that is already
\* in the client_id column of the sheet, whichever of its remote calls fail,
\* the read of the existing rows included.
C33_NoDuplicateAppend ==
    (ret # Pending /\ MethodOf(ret) = "incremental_sync") =>
        AppendedIds \cap IdsInSheet(arg.sheet) = {}

\* C37: incremental_sync returns True only if every batch update request and
\* every append request it sent succeeded; if one of them failed it returns
\* False.
C37_FaithfulOutcome ==
    (ret # Pending /\ MethodOf(ret) = "incremental_sync") =>
        (ValueOf(ret) = PyTrue <=>
            /\ EnvOf(ret).db
            /\ \A n \in 1..Len(RequestsOf(ret)) : RequestsOf(ret)[n].ok)

(***************************************************************************)
(* Claims about the write phase, the header and the schema                 *)
(***************************************************************************)
\* the ranges of the plan's updates that address row r
UpdateRangesOf(r) == {w.range : w \in {x \in Range(all_updates) : x.range.r1 = r}}

\* C35: the three update ranges of one client (C, E, F..O of its row) are
\* always sent in the same batch request, so after a failure between two
\* update chunks no row has some of its three ranges sent and the others not.
C35_UpdateGroupsUnsplit ==
    /\ \A n \in Issued("update") : \A rg \in Range(log[n].data) :
          UpdateRangesOf(rg.r1) \subseteq Range(log[n].data)
    /\ (pc = "idle" /\ Failed) =>
          \A w \in Range(all_updates) :
              \/ UpdateRangesOf(w.range.r1)
                    \subseteq UNION {Range(log[n].data) : n \in Done("update")}
              \/ UpdateRangesOf(w.range.r1)
                    \cap UNION {Range(log[n].data) : n \in Done("update")} = {}

\* C38: every call of sync_to_sheets that opened a Database connection has
\* closed it by the time it returns or raises: while no call runs no
\* connection is open, and while one runs at most its own is, however many
\* cycles have failed.
C38_ConnectionsReleased ==
    /\ pc = "idle" => connections = 0
    /\ connections <= 1

\* C36: the header row is never written. Every range of a duplicate clear,
\* of the append and of an update, planned or sent, starts at row
\* FIRST_DATA_ROW (2) or below it, whatever the sheet holds: nothing at all,
\* or a header whose cell in column C holds digits; and no step changes the
\* first row of the sheet.
HeaderRanges ==
    /\ \A n \in 1..Len(log) :
          log[n].kind \in WriteKinds =>
              \A k \in 1..Len(log[n].data) : log[n].data[k].r1 >= FIRST_DATA_ROW
    /\ \A w \in Range(duplicate_clears) \cup Range(all_updates) :
          w.range.r1 >= FIRST_DATA_ROW
    /\ new_rows # <<>> => AppendRequest(last_row, new_rows).range.r1 >= FIRST_DATA_ROW

C36_HeaderNeverWritten ==
    /\ []HeaderRanges
    /\ [][grid' # grid =>
              grid'[1] = (IF Len(grid) >= 1 THEN grid[1] ELSE BlankRow)]_vars

\* a cycle over a header with a client's number in its phone cell has
\* appended that client below it; and a cycle has appended to an empty sheet
C36_Witness ==
    /\ pc = "close"
    /\ grid[1] = NumberedHeader
    /\ \E n \in Done("append") : log[n].data[1].r1 = FIRST_DATA_ROW
    /\ \E k \in 1..Len(store) : normalize_phone(store[k].phone) = K2

\* the five identity columns, in the order of the appended row
IdentityColumns == <<"date", "full_name", "phone", "telegram", "folder_created">>

\* what the appended row of a roster entry holds for a column name
FieldOf(name, key, data) ==
    CASE name = "date" ->
            IF data.created_at # None THEN StrfDate(data.created_at)
            ELSE StrfDate(Today)
      [] name = "full_name" -> data.full_name
      [] name = "phone" -> key
      [] name = "telegram" -> TelegramLink(data.telegram_id)
      [] name = "folder_created" -> data.drive_folder_url
      [] OTHER -> PyBool(name \in data.doc_types)

\* C39: COLUMNS and DOC_TYPES agree. For every document type t, COLUMNS[t] is
\* 5 plus the index of t in DOC_TYPES; the ten document columns are exactly
\* F..O, none missing and none twice; the identity columns date, full_name,
\* phone, telegram, folder_created are A..E in the order the appended row
\* lists them; so every cell of a planned row holds the field of the column
\* name COLUMNS gives its place, and the F..O payload of an update the flags
\* of the columns F..O.
C39_ColumnsAgree ==
    /\ \A d \in 1..Len(DOC_TYPES) : COLUMNS[DOC_TYPES[d]] = 5 + (d - 1)
    /\ Len(DOC_TYPES) = 10
    /\ Cardinality(Range(DOC_TYPES)) = 10
    /\ {COLUMNS[t] : t \in Range(DOC_TYPES)} = ColF..ColO
    /\ \A n \in 1..Len(IdentityColumns) : COLUMNS[IdentityColumns[n]] = ColA + n - 1
    /\ DOMAIN COLUMNS = Range(IdentityColumns) \cup Range(DOC_TYPES)
    /\ pc # "idle" =>
          \A roster \in {Roster(store)} :
          /\ \A n \in 1..Len(new_rows) :
                \A key \in {new_rows[n][COLUMNS.phone + 1]} :
                    /\ DictHas(roster, key)
                    /\ Len(new_rows[n]) = Cardinality(DOMAIN COLUMNS)
                    /\ \A name \in DOMAIN COLUMNS :
                          new_rows[n][COLUMNS[name] + 1]
                              = FieldOf(name, key, DictGet(roster, key))
          /\ \A n \in 1..Len(all_updates) : \A w \in {all_updates[n]} :
                w.range.c1 = ColF =>
                    \A key \in {all_updates[n - 2].values[1][1]} :
                    \A t \in Range(DOC_TYPES) :
                        w.values[1][COLUMNS[t] - w.range.c1 + 1]
                            = FieldOf(t, key, DictGet(roster, key))

\* a plan with a new row and an update, each with a document the client has
\* and one the client has not
C39_Witness ==
    /\ pc # "idle"
    /\ \E n \in 1..Len(new_rows) :
          /\ new_rows[n][COLUMNS.workbook + 1] = PyTrue
          /\ new_rows[n][COLUMNS.story + 1] = PyFalse
    /\ \E n \in 1..Len(all_updates) :
          /\ all_updates[n].range.c1 = ColF
          /\ all_updates[n].values[1][COLUMNS.ecp - ColF + 1] = PyTrue
          /\ all_updates[n].values[1][COLUMNS.workbook - ColF + 1] = PyFalse

(***************************************************************************)
(* Claims about the bot                                                    *)
(***************************************************************************)
\* C34: Database.execute makes at most 3 query attempts, one per pass of the
\* retry loop; a connection error (OperationalError or InterfaceError)
\* reaches the caller only from the third pass, after the two before it have
\* failed; any other error ends the call in the pass it occurred in; the
\* caller sees an exception exactly when the call ended by raising.
C34_BoundedRetry ==
    /\ frame.attempt < max_retries
    /\ frame.queries <= frame.attempt + 1
    /\ (frame.pc = "raised" /\ frame.error = "connection")
          => frame.attempt + 1 = max_retries
    /\ frame.pc = "raised" <=> ret = Raised

\* C31: with the job run once a day at a fixed time, a client who stays
\* inactive and has a Telegram id has received, after every check, a reminder
\* on exactly the inactivity days 3, 6, 9 and every day from 10 on that the
\* checks have reached; a client without a Telegram id has received none.
C31_ReminderCadence ==
    frame.sent = IF arg.telegram_id
                 THEN {d \in 0..frame.days_inactive : d \in {3, 6, 9} \/ d >= 10}
                 ELSE {}

\* C32: when two cycles run concurrently against an unchanged store, however
\* their reads and writes interleave, after both have finished every roster
\* phone key occupies exactly one row of the sheet.
C32_OverlapKeepsRoster ==
    (/\ pc = "idle" /\ outcome = "ok"
     /\ other[1] = "idle" /\ other[11] = "ok") =>
        \A key \in RosterKeys : Cardinality(KeyRows(grid, key)) = 1

====
